---- MODULE Spec2Model ----
(***************************************************************************)
(* Verification model of the course-content backend: the index parser      *)
(* (parseIndexContent and its helpers), the voiceover post-processing of   *)
(* generateTopicContent, the structure materializer                        *)
(* (createCourseStructure over the Drive find-or-create calls), the       *)
(* pipeline orchestrator (runPipeline with its p-limit task pool, as the   *)
(* command line and the HTTP server call it) and one topic's generation    *)
(* requests (generateContent under pRetry, generateJSON), the schema       *)
(* validator, the jobs of the HTTP server and the authorization of the     *)
(* document store (google/auth.ts).                                        *)
(*                                                                         *)
(* Text is modelled as TLA+ strings, one character per UTF-16 code unit,   *)
(* as JavaScript sees it.  Code units outside the Basic Multilingual Plane *)
(* and symbols cannot be written in a TLA+ string, so each such code unit   *)
(* that the source's regular expressions mention is given a stand-in       *)
(* character (the fields of U below).  The code units that the            *)
(* explored documents contain have ASCII stand-ins, since TLC stores the   *)
(* strings of queued states one byte per character.                        *)
(***************************************************************************)
EXTENDS Integers, Sequences, FiniteSets, TLC

(***************************************************************************)
(* Bounds of the model.                                                    *)
(***************************************************************************)
MaxLines == 3      \* longest generated index document, in lines
MaxN == 2          \* largest configured maxConcurrentTopics explored
MaxDraftLines == 2 \* longest generated voiceover draft, in lines

(***************************************************************************)
(* The stand-in character of each code unit (see header), by its UTF-16    *)
(* value:                                                                  *)
(*   u00CD the letter Í (U+00CD)                                         *)
(*   u00D3 the letter Ó (U+00D3)                                         *)
(*   u00F3 the letter ó (U+00F3)                                         *)
(*   u00E1 the letter á (U+00E1)                                         *)
(*   u0060 the grave accent U+0060, which a TLA+ string cannot hold      *)
(*   u2022 the bullet character U+2022                                   *)
(*   u2500 the BMP character U+2500 (box-drawing horizontal)             *)
(*   u26AA the BMP character U+26AA (white circle)                       *)
(*   uFE0F variation selector of 🛠️                                      *)
(*   uD83C high surrogate of 🎯                                           *)
(*   uD83D high surrogate of 📌 🛠 👉 📘 📗 📕 📙 🔵 🟢 🔴 🟡                       *)
(*   uD83E high surrogate of 🧱                                           *)
(*   uDC49 low surrogate of 👉                                            *)
(*   uDCCC low surrogate of 📌                                            *)
(*   uDCD5 low surrogate of 📕                                            *)
(*   uDCD7 low surrogate of 📗                                            *)
(*   uDCD8 low surrogate of 📘                                            *)
(*   uDCD9 low surrogate of 📙                                            *)
(*   uDD34 low surrogate of 🔴                                            *)
(*   uDD35 low surrogate of 🔵                                            *)
(*   uDDF1 low surrogate of 🧱                                            *)
(*   uDEE0 low surrogate of 🛠                                            *)
(*   uDFAF low surrogate of 🎯                                            *)
(*   uDFE1 low surrogate of 🟡                                            *)
(*   uDFE2 low surrogate of 🟢                                            *)
(***************************************************************************)
U ==
  [u00CD |-> "^",
   u00D3 |-> "@",
   u00F3 |-> "=",
   u00E1 |-> "&",
   u0060 |-> "$",
   u2022 |-> "~",
   u2500 |-> "τ",
   u26AA |-> "υ",
   uFE0F |-> "η",
   uD83C |-> "α",
   uD83D |-> "%",
   uD83E |-> "γ",
   uDC49 |-> "θ",
   uDCCC |-> "!",
   uDCD5 |-> "λ",
   uDCD7 |-> "κ",
   uDCD8 |-> "ι",
   uDCD9 |-> "μ",
   uDD34 |-> "ρ",
   uDD35 |-> ";",
   uDDF1 |-> "ε",
   uDEE0 |-> "ζ",
   uDFAF |-> "ν",
   uDFE1 |-> "σ",
   uDFE2 |-> "π" ]
emojiPin == U.uD83D \o U.uDCCC
emojiBrick == U.uD83E \o U.uDDF1
emojiBook == U.uD83D \o U.uDCD8
emojiTarget == U.uD83C \o U.uDFAF
emojiBlue == U.uD83D \o U.uDD35

Undefined == "<undefined>"

\* F applied to the value of v, with v evaluated once
Bind(v, F(_)) == CHOOSE r \in {F(x) : x \in {v}} : TRUE

(***************************************************************************)
(* String primitives (String.prototype and RegExp building blocks).        *)
(***************************************************************************)
Ch(s, i) == SubSeq(s, i, i)

Digits == {"0", "1", "2", "3", "4", "5", "6", "7", "8", "9"}
WhiteSpace == {" ", "\t", "\n"}

UpperChars == "ABCDEFGHIJKLMNOPQRSTUVWXYZ" \o U.u00D3 \o "ÁÉÍÚÑ"
LowerChars == "abcdefghijklmnopqrstuvwxyz" \o U.u00F3 \o U.u00E1 \o "éíúñ"

MatchAt(s, i, p) ==
  /\ i >= 1
  /\ i + Len(p) - 1 <= Len(s)
  /\ SubSeq(s, i, i + Len(p) - 1) = p

StartsWith(s, p) == MatchAt(s, 1, p)
EndsWith(s, p) == MatchAt(s, Len(s) - Len(p) + 1, p)

Min(S) == CHOOSE x \in S : \A y \in S : x <= y
Max(S) == CHOOSE x \in S : \A y \in S : y <= x

\* s.indexOf(p) + 1 (0 when p does not occur)
IndexOf(s, p) ==
  LET hits == {i \in 1..Len(s) : MatchAt(s, i, p)}
  IN IF hits = {} THEN 0 ELSE Min(hits)

Includes(s, p) == IndexOf(s, p) # 0

\* concatenation of the strings q[lo] .. q[hi]
RECURSIVE ConcatRange(_, _, _)
ConcatRange(q, lo, hi) ==
  IF lo > hi THEN ""
  ELSE IF lo = hi THEN q[lo]
  ELSE LET mid == (lo + hi) \div 2
       IN ConcatRange(q, lo, mid) \o ConcatRange(q, mid + 1, hi)

ConcatAll(q) == ConcatRange(q, 1, Len(q))

\* the character-to-character tables of toLowerCase / toUpperCase
LowerMap ==
  [c \in {Ch(UpperChars, i) : i \in 1..Len(UpperChars)} |->
     Ch(LowerChars, CHOOSE i \in 1..Len(UpperChars) : Ch(UpperChars, i) = c)]
UpperMap ==
  [c \in {Ch(LowerChars, i) : i \in 1..Len(LowerChars)} |->
     Ch(UpperChars, CHOOSE i \in 1..Len(LowerChars) : Ch(LowerChars, i) = c)]

MapChars(s, map) ==
  ConcatAll([i \in 1..Len(s) |->
               IF Ch(s, i) \in DOMAIN map THEN map[Ch(s, i)] ELSE Ch(s, i)])

ToLowerCase(s) == MapChars(s, LowerMap)
ToUpperCase(s) == MapChars(s, UpperMap)

MatchAtCI(s, i, p) ==
  /\ i >= 1
  /\ i + Len(p) - 1 <= Len(s)
  /\ ToLowerCase(SubSeq(s, i, i + Len(p) - 1)) = ToLowerCase(p)

\* length of the longest run of characters of class starting at position i
RunLen(s, i, class) ==
  IF i > Len(s) \/ i < 1 THEN 0
  ELSE LET stops == {j \in i..Len(s) : Ch(s, j) \notin class}
       IN IF stops = {} THEN Len(s) - i + 1 ELSE Min(stops) - i

\* length of the longest run of characters of class ending at position i
RunLenBack(s, i, class) ==
  IF i > Len(s) \/ i < 1 THEN 0
  ELSE LET stops == {j \in 1..i : Ch(s, j) \notin class}
       IN IF stops = {} THEN i ELSE i - Max(stops)

\* s.replace(/[class]/g, '')
RemoveChars(s, class) ==
  ConcatAll([i \in 1..Len(s) |-> IF Ch(s, i) \in class THEN "" ELSE Ch(s, i)])

From(s, i) == IF i > Len(s) THEN "" ELSE SubSeq(s, i, Len(s))

TrimStart(s) == From(s, 1 + RunLen(s, 1, WhiteSpace))
TrimEnd(s) == SubSeq(s, 1, Len(s) - RunLenBack(s, Len(s), WhiteSpace))
Trim(s) == TrimEnd(TrimStart(s))

\* content.split('\n')
RECURSIVE Split(_)
Split(content) ==
  LET k == IndexOf(content, "\n")
  IN IF k = 0 THEN <<content>>
     ELSE <<SubSeq(content, 1, k - 1)>> \o Split(From(content, k + 1))

\* lines.join(sep)
RECURSIVE Join(_, _)
Join(lines, sep) ==
  IF Len(lines) = 0 THEN ""
  ELSE IF Len(lines) = 1 THEN lines[1]
  ELSE lines[1] \o sep \o Join(Tail(lines), sep)

RECURSIVE SelectNonEmpty(_)
SelectNonEmpty(lines) ==
  IF Len(lines) = 0 THEN <<>>
  ELSE (IF Head(lines) = "" THEN <<>> ELSE <<Head(lines)>>)
       \o SelectNonEmpty(Tail(lines))

\* content.split('\n').map((line) => line.trim()).filter(Boolean)
SplitLines(content) ==
  LET raw == Split(content)
  IN SelectNonEmpty([i \in 1..Len(raw) |-> Trim(raw[i])])


(***************************************************************************)
(* Index parser: line shapes of parseModules.                              *)
(***************************************************************************)
ModuleNameStrip == {U.uD83D, U.uDCCC, U.uDEE0, U.uFE0F, U.uDC49}
TopicNameStrip == {U.uD83D, U.uDD35, U.u26AA, U.uDFE2, U.uDD34, U.uDFE1}
AltNameStrip == {U.uD83D, U.uDCCC, U.uDEE0, U.uFE0F, U.uDC49, U.uD83E, U.uDDF1, U.uDCD8}
ModuloSeparators == {":", "·", "."} \cup WhiteSpace
LevelWords == {"b" \o U.u00E1 \o "sico", "intermedio", "avanzado"}

\* /^[\d.]*\s*Nivel\s+(básico|intermedio|avanzado)/i
IsNivelLine(line) ==
  LET i == 1 + RunLen(line, 1, Digits \cup {"."})
      j == i + RunLen(line, i, WhiteSpace)
      k == RunLen(line, j + 5, WhiteSpace)
  IN /\ MatchAtCI(line, j, "Nivel")
     /\ k >= 1
     /\ \E w \in LevelWords : MatchAtCI(line, j + 5 + k, w)

\* /^(?:🧱\s*)?MÓDULO\s*(\d+)[:\s·.]+(.+)/i ; the result is <<matched, $2>>
ModuloMatch(line) ==
  LET a == IF StartsWith(line, emojiBrick)
           THEN 3 + RunLen(line, 3, WhiteSpace) ELSE 1
      b == a + 6
      c == b + RunLen(line, b, WhiteSpace)
      nd == RunLen(line, c, Digits)
      d == c + nd
      ns == RunLen(line, d, ModuloSeparators)
      e == d + ns
  IN IF ~ (MatchAtCI(line, a, "M" \o U.u00D3 \o "DULO") /\ nd >= 1 /\ ns >= 1) THEN <<FALSE, "">>
     ELSE IF e <= Len(line) THEN <<TRUE, From(line, e)>>
     ELSE IF ns >= 2 THEN <<TRUE, From(line, e - 1)>>
     ELSE <<FALSE, "">>

\* /^([BI])(\d+)\.\s+(.+)$/ ; the result is <<matched, $1, $2, $3>>
ModuleHeaderMatch(line) ==
  LET nd == RunLen(line, 2, Digits)
      dot == 2 + nd
      ns == RunLen(line, dot + 1, WhiteSpace)
      r == dot + 1 + ns
  IN IF /\ Len(line) >= 1
        /\ Ch(line, 1) \in {"B", "I"}
        /\ nd >= 1
        /\ MatchAt(line, dot, ".")
        /\ ns >= 1
        /\ r <= Len(line)
     THEN <<TRUE, Ch(line, 1), SubSeq(line, 2, dot - 1), From(line, r)>>
     ELSE <<FALSE, "", "", "">>

\* /^[BI]\d+\.\d+/
HasDecimalPrefix(line) ==
  LET nd == RunLen(line, 2, Digits)
  IN /\ Len(line) >= 1
     /\ Ch(line, 1) \in {"B", "I"}
     /\ nd >= 1
     /\ MatchAt(line, 2 + nd, ".")
     /\ RunLen(line, 3 + nd, Digits) >= 1

\* /^([BI])(\d+)\.(\d+)\s+(.+)$/ ; the result is <<matched, $1, $2, $3, $4>>
TopicMatch(line) ==
  LET nd == RunLen(line, 2, Digits)
      dot == 2 + nd
      nt == RunLen(line, dot + 1, Digits)
      s == dot + 1 + nt
      ns == RunLen(line, s, WhiteSpace)
      r == s + ns
  IN IF /\ Len(line) >= 1
        /\ Ch(line, 1) \in {"B", "I"}
        /\ nd >= 1
        /\ MatchAt(line, dot, ".")
        /\ nt >= 1
        /\ ns >= 1
        /\ r <= Len(line)
     THEN <<TRUE, Ch(line, 1), SubSeq(line, 2, dot - 1),
            SubSeq(line, dot + 1, s - 1), From(line, r)>>
     ELSE <<FALSE, "", "", "", "">>

ResultMarker == emojiPin \o " Resultado:"

\* line.replace('<marker>', '') : the first occurrence only
ReplaceFirst(line, p) ==
  LET k == IndexOf(line, p)
  IN IF k = 0 THEN line
     ELSE SubSeq(line, 1, k - 1) \o From(line, k + Len(p))

NewModule(n, name) ==
  [moduleNumber |-> n, moduleName |-> name, moduleResult |-> Undefined,
   topics |-> <<>>]

NewTopic(number, name) ==
  [topicNumber |-> number, topicName |-> name, status |-> "pending"]

NoModule == [moduleNumber |-> 0, moduleName |-> Undefined,
             moduleResult |-> Undefined, topics |-> <<>>]

(***************************************************************************)
(* parseModules: one forward pass; the loop state is the emitted modules,  *)
(* the open module (open = FALSE when currentModule is null) and           *)
(* globalModuleCounter.                                                    *)
(***************************************************************************)
\* CloseModule without the "at least one topic" test
CloseModuleAlways(st) ==
  IF st.open THEN Append(st.modules, st.cur) ELSE st.modules

CloseModule(st) ==
  IF st.open /\ Len(st.cur.topics) > 0
  THEN Append(st.modules, st.cur) ELSE st.modules

\* the loop body with the `continue` of the topic handler missing: the line
\* goes on to the module-result test
ParseLineFallsThrough(st, line) ==
  LET mm == ModuloMatch(line)
      hm == ModuleHeaderMatch(line)
      tm == TopicMatch(line)
      result(s) == IF Includes(line, ResultMarker) /\ s.open
                   THEN [s EXCEPT !.cur.moduleResult =
                                    Trim(ReplaceFirst(line, ResultMarker))]
                   ELSE s
  IN IF IsNivelLine(line) THEN st
     ELSE IF mm[1] THEN
       [modules |-> CloseModule(st), open |-> TRUE,
        counter |-> st.counter + 1,
        cur |-> NewModule(st.counter + 1,
                          Trim(RemoveChars(mm[2], ModuleNameStrip)))]
     ELSE IF hm[1] /\ ~ HasDecimalPrefix(line) THEN
       [modules |-> CloseModule(st), open |-> TRUE,
        counter |-> st.counter + 1,
        cur |-> NewModule(st.counter + 1,
                  Trim(RemoveChars(hm[2] \o hm[3] \o ". " \o Trim(hm[4]),
                                   ModuleNameStrip)))]
     ELSE IF tm[1] THEN
       LET counter == IF st.open THEN st.counter ELSE st.counter + 1
           cur == IF st.open THEN st.cur
                  ELSE NewModule(counter, "Contenido del curso")
           topicName == Trim(RemoveChars(RemoveChars(tm[5], TopicNameStrip),
                                         {U.uDD35}))
       IN result([modules |-> st.modules, open |-> TRUE, counter |-> counter,
                  cur |-> IF Len(topicName) > 0
                          THEN [cur EXCEPT !.topics =
                                  Append(@, NewTopic(tm[3] \o "." \o tm[4], topicName))]
                          ELSE cur])
     ELSE result(st)

ParseLine(st, line) ==
  LET mm == ModuloMatch(line)
      hm == ModuleHeaderMatch(line)
      tm == TopicMatch(line)
  IN IF IsNivelLine(line) THEN st
     ELSE IF mm[1] THEN
       [modules |-> CloseModule(st), open |-> TRUE,
        counter |-> st.counter + 1,
        cur |-> NewModule(st.counter + 1,
                          Trim(RemoveChars(mm[2], ModuleNameStrip)))]
     ELSE IF hm[1] /\ ~ HasDecimalPrefix(line) THEN
       [modules |-> CloseModule(st), open |-> TRUE,
        counter |-> st.counter + 1,
        cur |-> NewModule(st.counter + 1,
                  Trim(RemoveChars(hm[2] \o hm[3] \o ". " \o Trim(hm[4]),
                                   ModuleNameStrip)))]
     ELSE IF tm[1] THEN
       LET counter == IF st.open THEN st.counter ELSE st.counter + 1
           cur == IF st.open THEN st.cur
                  ELSE NewModule(counter, "Contenido del curso")
           topicName == Trim(RemoveChars(RemoveChars(tm[5], TopicNameStrip),
                                         {U.uDD35}))
       IN [modules |-> st.modules, open |-> TRUE, counter |-> counter,
           cur |-> IF Len(topicName) > 0
                   THEN [cur EXCEPT !.topics =
                           Append(@, NewTopic(tm[3] \o "." \o tm[4], topicName))]
                   ELSE cur]
     ELSE IF Includes(line, ResultMarker) /\ st.open THEN
       [st EXCEPT !.cur.moduleResult = Trim(ReplaceFirst(line, ResultMarker))]
     ELSE st

RECURSIVE ParseLoop(_, _, _)
ParseLoop(lines, i, st) ==
  IF i > Len(lines) THEN st
  ELSE Bind(lines[i],
            LAMBDA line :
              Bind(ParseLine(st, line), LAMBDA next : ParseLoop(lines, i + 1, next)))

ParseStart == [modules |-> <<>>, open |-> FALSE, counter |-> 0, cur |-> NoModule]

\* the modules emitted by the primary pass, the last open module included
PrimaryModules(lines) ==
  Bind(ParseLoop(lines, 1, ParseStart), LAMBDA st : CloseModule(st))

(***************************************************************************)
(* parseAlternativeFormat                                                  *)
(***************************************************************************)
RECURSIVE StringOf(_)
StringOf(n) ==
  IF n < 10 THEN Ch("0123456789", n + 1)
  ELSE StringOf(n \div 10) \o Ch("0123456789", (n % 10) + 1)

\* /^[_─]+$/
IsRuleLine(line) == Len(line) >= 1 /\ RunLen(line, 1, {"_", U.u2500}) = Len(line)

\* the ways /^\d+\.?\d*/ can match a prefix of line: a digits, an optional
\* dot, b digits
NumPrefixes(line) ==
  { c \in [a : 1..RunLen(line, 1, Digits), dot : {0, 1}, b : 0..Len(line)] :
      /\ c.dot = 1 => MatchAt(line, c.a + 1, ".")
      /\ c.b <= RunLen(line, c.a + c.dot + 1, Digits) }

\* /^\d+\.?\d*[.\s)/]/
HasNumber(line) ==
  \E c \in NumPrefixes(line) :
    RunLen(line, c.a + c.dot + c.b + 1, {".", ")", "/"} \cup WhiteSpace) >= 1

\* /^(\d+\.?\d*)[.\s)]+(.+)/ with the backtracking order of the engine:
\* longest \d+ first, then the optional dot taken, then the longest \d*;
\* the result is <<matched, $1, $2>>
AltCandidates(line) ==
  { c \in NumPrefixes(line) :
      LET p == c.a + c.dot + c.b
          k == RunLen(line, p + 1, {".", ")"} \cup WhiteSpace)
      IN k >= 1 /\ (p + k < Len(line) \/ k >= 2) }

AltRank(c, len) == ((c.a * 2 + c.dot) * (len + 1)) + c.b

AltMatch(line) ==
  Bind(AltCandidates(line),
       LAMBDA cands :
         IF cands = {} THEN <<FALSE, "", "">>
         ELSE \* the candidate the engine tries first
              Bind(Max({AltRank(x, Len(line)) : x \in cands}),
                   LAMBDA best :
                     Bind(CHOOSE x \in cands : AltRank(x, Len(line)) = best,
                          LAMBDA c :
                            Bind(c.a + c.dot + c.b,
                                 LAMBDA p :
                                   Bind(RunLen(line, p + 1, {".", ")"} \cup WhiteSpace),
                                        LAMBDA k :
                                          <<TRUE, SubSeq(line, 1, p),
                                            From(line, IF p + k < Len(line)
                                                       THEN p + k + 1 ELSE p + k)>>)))))

\* the fallback loop body counting only the topics it numbers itself
AltLineCountingUnnumbered(st, line) ==
  IF Includes(line, "Objetivo") \/ Includes(line, emojiTarget) THEN st
  ELSE IF IsRuleLine(line) THEN st
  ELSE IF Len(line) < 5 THEN st
  ELSE IF HasNumber(line) \/ Len(line) > 10 THEN
    Bind(AltMatch(line),
         LAMBDA m :
           [topics |-> Append(st.topics,
                         NewTopic(IF m[1] THEN m[2] ELSE StringOf(st.topicCounter),
                                  Trim(RemoveChars(IF m[1] THEN m[3] ELSE line,
                                                   AltNameStrip)))),
            topicCounter |-> IF m[1] THEN st.topicCounter ELSE st.topicCounter + 1])
  ELSE st

AltLine(st, line) ==
  IF Includes(line, "Objetivo") \/ Includes(line, emojiTarget) THEN st
  ELSE IF IsRuleLine(line) THEN st
  ELSE IF Len(line) < 5 THEN st
  ELSE IF HasNumber(line) \/ Len(line) > 10 THEN
    Bind(AltMatch(line),
         LAMBDA m :
           [topics |-> Append(st.topics,
                         NewTopic(IF m[1] THEN m[2] ELSE StringOf(st.topicCounter),
                                  Trim(RemoveChars(IF m[1] THEN m[3] ELSE line,
                                                   AltNameStrip)))),
            topicCounter |-> st.topicCounter + 1])
  ELSE st

RECURSIVE AltLoop(_, _, _)
AltLoop(lines, i, st) ==
  IF i > Len(lines) THEN st
  ELSE Bind(lines[i],
            LAMBDA line :
              Bind(AltLine(st, line), LAMBDA next : AltLoop(lines, i + 1, next)))

parseAlternativeFormat(lines) ==
  Bind(AltLoop(lines, 1, [topics |-> <<>>, topicCounter |-> 1]),
       LAMBDA st :
         IF Len(st.topics) > 0
         THEN <<[NewModule(1, "Contenido del curso") EXCEPT !.topics = st.topics]>>
         ELSE <<>>)

parseModules(lines) ==
  Bind(PrimaryModules(lines),
       LAMBDA modules :
         IF Len(modules) = 0 THEN parseAlternativeFormat(lines) ELSE modules)

(***************************************************************************)
(* extractCourseName, extractLevel, extractObjective                       *)
(***************************************************************************)
BookUnits == {U.uD83D, U.uDCD8, U.uDCD7, U.uDCD5, U.uDCD9}
TitleUnits == BookUnits \cup {U.uD83C, U.uDFAF, U.uD83E, U.uDDF1}

\* line.replace(/^[class]+/, '')
StripLeading(line, class) == From(line, 1 + RunLen(line, 1, class))

\* /^[BMI]\d+\./
IsLetterMarker(line) ==
  /\ Len(line) >= 1
  /\ Ch(line, 1) \in {"B", "M", "I"}
  /\ RunLen(line, 2, Digits) >= 1
  /\ MatchAt(line, 2 + RunLen(line, 2, Digits), ".")

RECURSIVE CourseNameFrom(_, _)
CourseNameFrom(lines, i) ==
  IF i > Len(lines) \/ i > 10
  THEN (IF Len(lines) > 0 /\ lines[1] # "" THEN lines[1] ELSE "Untitled Course")
  ELSE LET line == lines[i]
       IN IF Includes(line, "Objetivo") \/ Includes(line, "objetivo")
          THEN CourseNameFrom(lines, i + 1)
          ELSE IF Includes(line, "Nivel") \/ Includes(line, "nivel")
          THEN CourseNameFrom(lines, i + 1)
          ELSE IF Includes(line, "CURSO") \/ Includes(line, "Curso")
          THEN Trim(StripLeading(line, TitleUnits \cup WhiteSpace))
          ELSE IF Ch(line, 1) \in BookUnits
          THEN Trim(StripLeading(line, BookUnits \cup WhiteSpace))
          ELSE IF /\ Len(line) > 10
                  /\ ~ IsLetterMarker(line)
                  /\ ~ MatchAtCI(line, 1, "M" \o U.u00D3 \o "DULO")
          THEN Trim(StripLeading(line, BookUnits \cup WhiteSpace))
          ELSE CourseNameFrom(lines, i + 1)

extractCourseName(lines) == CourseNameFrom(lines, 1)

\* extractLevel searching the text as written, without toLowerCase
extractLevelCaseSensitive(lines) ==
  LET content == Join(lines, " ")
  IN IF Includes(content, "avanzado") \/ Includes(content, "advanced")
     THEN "avanzado"
     ELSE IF Includes(content, "intermedio") \/ Includes(content, "intermediate")
     THEN "intermedio"
     ELSE "b" \o U.u00E1 \o "sico"

extractLevel(lines) ==
  LET content == ToLowerCase(Join(lines, " "))
  IN IF Includes(content, "avanzado") \/ Includes(content, "advanced")
     THEN "avanzado"
     ELSE IF Includes(content, "intermedio") \/ Includes(content, "intermediate")
     THEN "intermedio"
     ELSE "b" \o U.u00E1 \o "sico"

\* /^[🎯\s]*Objetivo/i
IsObjectiveHeader(line) ==
  MatchAtCI(line, 1 + RunLen(line, 1, {U.uD83C, U.uDFAF} \cup WhiteSpace), "Objetivo")

\* line.replace(/^[🎯\s]*Objetivo[:\s]*/i, '')
StripObjectiveMarker(line) ==
  LET a == 1 + RunLen(line, 1, {U.uD83C, U.uDFAF} \cup WhiteSpace)
  IN IF MatchAtCI(line, a, "Objetivo")
     THEN From(line, a + 8 + RunLen(line, a + 8, {":"} \cup WhiteSpace))
     ELSE line

\* /^[🧱📌MÓDULO]/
IsModuleMarkerStart(line) ==
  /\ Len(line) >= 1
  /\ Ch(line, 1) \in {U.uD83E, U.uDDF1, U.uD83D, U.uDCCC, "M", U.u00D3, "D", "U", "L", "O"}

RECURSIVE CollectObjective(_, _)
CollectObjective(lines, j) ==
  IF j > Len(lines) \/ IsModuleMarkerStart(lines[j]) THEN <<>>
  ELSE (IF lines[j] # "" /\ ~ IsRuleLine(lines[j]) THEN <<lines[j]>> ELSE <<>>)
       \o CollectObjective(lines, j + 1)

\* s.replace(/\s+/g, ' ')
CollapseSpaces(s) ==
  ConcatAll([i \in 1..Len(s) |->
               IF Ch(s, i) \notin WhiteSpace THEN Ch(s, i)
               ELSE IF i > 1 /\ Ch(s, i - 1) \in WhiteSpace THEN ""
               ELSE " "])

RECURSIVE ObjectiveFrom(_, _)
ObjectiveFrom(lines, i) ==
  IF i > Len(lines) THEN "Completar el curso satisfactoriamente"
  ELSE LET line == lines[i]
       IN IF \/ Includes(line, "Objetivo")
             \/ Includes(line, "objetivo")
             \/ Includes(line, emojiTarget)
          THEN LET first == IF IsObjectiveHeader(line) THEN <<>>
                            ELSE <<StripObjectiveMarker(line)>>
                   j == IF IsObjectiveHeader(line) THEN i + 1 ELSE i
               IN CollapseSpaces(Trim(Join(first \o CollectObjective(lines, j), " ")))
          ELSE ObjectiveFrom(lines, i + 1)

extractObjective(lines) == ObjectiveFrom(lines, 1)

(***************************************************************************)
(* createEmptyCourseSpec, parseIndexContent.  The clock reading `now' is   *)
(* what new Date().toISOString() returns at the call.                      *)
(***************************************************************************)
createEmptyCourseSpec(now) ==
  [courseName |-> "", level |-> "b" \o U.u00E1 \o "sico", objective |-> "", modules |-> <<>>,
   metadata |-> [sourceFileId |-> Undefined, parsedAt |-> now]]

\* parseIndexContent with a time-stamped default course name
parseIndexContentStamped(content, now) ==
  Bind(SplitLines(content),
       LAMBDA lines :
         [createEmptyCourseSpec(now) EXCEPT
            !.courseName = IF Len(lines) = 0 THEN "Untitled Course " \o now
                           ELSE extractCourseName(lines),
            !.level = extractLevel(lines),
            !.objective = extractObjective(lines),
            !.modules = parseModules(lines)])

parseIndexContent(content, now) ==
  Bind(SplitLines(content),
       LAMBDA lines :
         [createEmptyCourseSpec(now) EXCEPT
            !.courseName = extractCourseName(lines),
            !.level = extractLevel(lines),
            !.objective = extractObjective(lines),
            !.modules = parseModules(lines)])

(***************************************************************************)
(* Schema validator.  The JSON schema (schemas/course-spec.schema.json) is *)
(* compiled by Ajv with allErrors; each violation yields one               *)
(* '<path>: <message>' string.                                             *)
(***************************************************************************)
LevelEnum == {"b" \o U.u00E1 \o "sico", "intermedio", "avanzado", "basic", "intermediate", "advanced"}

TooShort(path) == <<path \o ": must NOT have fewer than 1 characters">>

TopicErrors(topic, path) ==
  (IF topic.topicNumber = "" THEN TooShort(path \o "/topicNumber") ELSE <<>>)
  \o (IF topic.topicName = "" THEN TooShort(path \o "/topicName") ELSE <<>>)

RECURSIVE TopicsErrors(_, _, _)
TopicsErrors(topics, i, path) ==
  IF i > Len(topics) THEN <<>>
  ELSE TopicErrors(topics[i], path \o "/" \o StringOf(i - 1))
       \o TopicsErrors(topics, i + 1, path)

ModuleErrors(module, path) ==
  (IF module.moduleNumber < 1 THEN <<path \o "/moduleNumber: must be >= 1">> ELSE <<>>)
  \o (IF module.moduleName = "" THEN TooShort(path \o "/moduleName") ELSE <<>>)
  \o (IF Len(module.topics) = 0
      THEN <<path \o "/topics: must NOT have fewer than 1 items">> ELSE <<>>)
  \o TopicsErrors(module.topics, 1, path \o "/topics")

RECURSIVE ModulesErrors(_, _)
ModulesErrors(modules, i) ==
  IF i > Len(modules) THEN <<>>
  ELSE ModuleErrors(modules[i], "/modules/" \o StringOf(i - 1))
       \o ModulesErrors(modules, i + 1)

SchemaErrors(data) ==
  (IF data.courseName = "" THEN TooShort("/courseName") ELSE <<>>)
  \o (IF data.level \notin LevelEnum
      THEN <<"/level: must be equal to one of the allowed values">> ELSE <<>>)
  \o ModulesErrors(data.modules, 1)

\* validateCourseSpecSchema reporting the first violation only
validateCourseSpecSchemaFirstError(data) ==
  LET errors == SchemaErrors(data)
  IN IF Len(errors) = 0
     THEN [valid |-> TRUE, errors |-> <<>>, courseSpec |-> data]
     ELSE [valid |-> FALSE, errors |-> <<errors[1]>>, courseSpec |-> Undefined]

validateCourseSpecSchema(data) ==
  LET errors == SchemaErrors(data)
  IN IF Len(errors) = 0
     THEN [valid |-> TRUE, errors |-> <<>>, courseSpec |-> data]
     ELSE [valid |-> FALSE, errors |-> errors, courseSpec |-> Undefined]

\* parseIndexDocument from the return of its parseIndexContent call on: the
\* result is the returned spec, or the error thrown
finishIndexDocument(fileId, spec, now) ==
  LET courseSpec == [spec EXCEPT
                       !.metadata = [sourceFileId |-> fileId, parsedAt |-> now]]
      validation == validateCourseSpecSchema(courseSpec)
  IN IF ~ validation.valid
     THEN [ok |-> FALSE, courseSpec |-> Undefined,
           error |-> "Error: Invalid CourseSpec: " \o Join(validation.errors, "; ")]
     ELSE [ok |-> TRUE, courseSpec |-> courseSpec, error |-> Undefined]

\* parseIndexDocument once readFileContent has returned content
parseIndexDocument(fileId, content, now) ==
  finishIndexDocument(fileId, parseIndexContent(content, now), now)

(***************************************************************************)
(* Voiceover post-processing of generateTopicContent: the required ending  *)
(* and cleanMarkdownToPlainText.                                           *)
(***************************************************************************)
requiredEnding == "Nos vemos en la siguiente clase."


\* s.replace(/<pat>$/i, requiredEnding)
ReplaceAtEndCI(s, pat) ==
  IF Len(s) >= Len(pat) /\ MatchAtCI(s, Len(s) - Len(pat) + 1, pat)
  THEN SubSeq(s, 1, Len(s) - Len(pat)) \o requiredEnding
  ELSE s

\* the two replacements of common variations: /Nos vemos en la siguiente
\* clase$/i, then /Nos vemos en la proxima clase\.?$/i (o-acute in the source)
FixVariations(s) ==
  Bind(ReplaceAtEndCI(s, "Nos vemos en la siguiente clase"),
       LAMBDA t :
         Bind("Nos vemos en la pr" \o U.u00F3 \o "xima clase",
              LAMBDA proxima :
                IF Len(t) >= 1 /\ Ch(t, Len(t)) = "."
                THEN ReplaceAtEndCI(t, proxima \o ".")
                ELSE ReplaceAtEndCI(t, proxima)))

finalVoiceover(voiceoverScript) ==
  Bind(Trim(voiceoverScript),
       LAMBDA trimmed :
         IF EndsWith(trimmed, requiredEnding) THEN trimmed
         ELSE Bind(FixVariations(trimmed),
                   LAMBDA fixed :
                     IF EndsWith(fixed, requiredEnding) THEN fixed
                     ELSE fixed \o "\n\n" \o requiredEnding))

\* ^ and $ under the m flag; the end of the run of . characters from i
AtLineStart(s, i) == i = 1 \/ Ch(s, i - 1) = "\n"
AtLineEnd(s, i) == i = Len(s) + 1 \/ Ch(s, i) = "\n"
LineEndFrom(s, i) == Min({j \in i..(Len(s) + 1) : AtLineEnd(s, j)})

NoMatch == [ok |-> FALSE, len |-> 0, out |-> ""]

\* /^#{1,6}\s+(.+)$/gm  ->  title.toUpperCase() + "\n"
HeaderMatch(s, i) ==
  IF ~ AtLineStart(s, i) THEN NoMatch
  ELSE Bind(RunLen(s, i, {"#"}),
    LAMBDA h :
      IF h < 1 \/ h > 6 THEN NoMatch
      ELSE Bind({w \in 1..RunLen(s, i + h, WhiteSpace) :
                   i + h + w <= Len(s) /\ Ch(s, i + h + w) # "\n"},
        LAMBDA widths :
          IF widths = {} THEN NoMatch
          ELSE Bind(i + h + Max(widths),
            LAMBDA t :
              Bind(LineEndFrom(s, t),
                LAMBDA e :
                  [ok |-> TRUE, len |-> e - i,
                   out |-> ToUpperCase(SubSeq(s, t, e - 1)) \o "\n"]))))

\* /<d>(.+?)<d>/g  ->  $1, for the delimiters ** * __ _ and `
DelimiterMatch(s, i, d) ==
  IF ~ MatchAt(s, i, d) THEN NoMatch
  ELSE Bind({j \in (i + Len(d) + 1)..Len(s) :
               MatchAt(s, j, d) /\ j <= LineEndFrom(s, i + Len(d))},
    LAMBDA closers :
      IF closers = {} THEN NoMatch
      ELSE Bind(Min(closers),
        LAMBDA j : [ok |-> TRUE, len |-> j + Len(d) - i,
                    out |-> SubSeq(s, i + Len(d), j - 1)]))

\* /```[\s\S]*?```/g  ->  ''
CodeBlockMatch(s, i) ==
  IF ~ MatchAt(s, i, U.u0060 \o U.u0060 \o U.u0060) THEN NoMatch
  ELSE Bind({j \in (i + 3)..Len(s) : MatchAt(s, j, U.u0060 \o U.u0060 \o U.u0060)},
    LAMBDA closers :
      IF closers = {} THEN NoMatch
      ELSE [ok |-> TRUE, len |-> Min(closers) + 3 - i, out |-> ""])

\* /^[\*\-\u2022]\s+/gm  ->  '- '
BulletMatch(s, i) ==
  IF AtLineStart(s, i) /\ i <= Len(s) /\ Ch(s, i) \in {"*", "-", U.u2022}
     /\ RunLen(s, i + 1, WhiteSpace) >= 1
  THEN [ok |-> TRUE, len |-> 1 + RunLen(s, i + 1, WhiteSpace), out |-> "- "]
  ELSE NoMatch

\* /^[-*_]{3,}$/gm  ->  ''
RuleMatch(s, i) ==
  Bind(RunLen(s, i, {"-", "*", "_"}),
    LAMBDA r :
      IF AtLineStart(s, i) /\ r >= 3 /\ AtLineEnd(s, i + r)
      THEN [ok |-> TRUE, len |-> r, out |-> ""]
      ELSE NoMatch)

\* /[\u{1F300}-\u{1F9FF}]|[\u{2600}-\u{26FF}]|[\u{2700}-\u{27BF}]/gu  ->  ''
HighSurrogates == {U.uD83C, U.uD83D, U.uD83E}
LowSurrogates ==
  {U.uDCCC, U.uDDF1, U.uDEE0, U.uDC49, U.uDCD8, U.uDCD7, U.uDCD5, U.uDCD9, U.uDFAF, U.uDD35,
   U.uDFE2, U.uDD34, U.uDFE1}
EmojiMatch(s, i) ==
  IF i < Len(s) /\ Ch(s, i) \in HighSurrogates /\ Ch(s, i + 1) \in LowSurrogates
  THEN [ok |-> TRUE, len |-> 2, out |-> ""]
  ELSE IF i <= Len(s) /\ Ch(s, i) = U.u26AA
  THEN [ok |-> TRUE, len |-> 1, out |-> ""]
  ELSE NoMatch

\* /\n{3,}/g  ->  '\n\n'
NewlinesMatch(s, i) ==
  IF RunLen(s, i, {"\n"}) >= 3
  THEN [ok |-> TRUE, len |-> RunLen(s, i, {"\n"}), out |-> "\n\n"]
  ELSE NoMatch

\* the replacements of cleanMarkdownToPlainText, in the order of the chain
CleanRules ==
  << "header", "**", "*", "__", "_", "codeblock", U.u0060, "bullet", "rule",
     "emoji", "newlines" >>

MatchOf(rule, s, i) ==
  CASE rule = "header" -> HeaderMatch(s, i)
    [] rule = "codeblock" -> CodeBlockMatch(s, i)
    [] rule = "bullet" -> BulletMatch(s, i)
    [] rule = "rule" -> RuleMatch(s, i)
    [] rule = "emoji" -> EmojiMatch(s, i)
    [] rule = "newlines" -> NewlinesMatch(s, i)
    [] OTHER -> DelimiterMatch(s, i, rule)

\* s.replace(/.../g, ...) from position from on: the leftmost match is
\* replaced and the search resumes after it
RECURSIVE ReplaceAll(_, _, _)
ReplaceAll(rule, s, from) ==
  Bind({i \in from..Len(s) : MatchOf(rule, s, i).ok},
    LAMBDA starts :
      IF starts = {} THEN From(s, from)
      ELSE Bind(Min(starts),
        LAMBDA i :
          Bind(MatchOf(rule, s, i),
            LAMBDA m :
              SubSeq(s, from, i - 1) \o m.out
                \o ReplaceAll(rule, s, i + m.len))))

RECURSIVE ApplyRules(_, _)
ApplyRules(s, k) ==
  IF k > Len(CleanRules) THEN s
  ELSE Bind(ReplaceAll(CleanRules[k], s, 1), LAMBDA t : ApplyRules(t, k + 1))

cleanMarkdownToPlainText(text) ==
  Bind(ApplyRules(text, 1), LAMBDA replaced : Trim(replaced))

(***************************************************************************)
(* The document store and the structure materializer.  A file of the store *)
(* is [name, parent, kind]; its identifier is its position in the store,   *)
(* and the root folder given to createCourseStructure has identifier 0.    *)
(* The resources createCourseStructure resolves are named by tags          *)
(* <<m, t, d>>: <<0, 0, 0>> the course folder, <<m, 0, 0>> the folder of   *)
(* the m-th module, <<m, t, 0>> the folder of its t-th topic and           *)
(* <<m, t, d>> the d-th document of that topic.                            *)
(***************************************************************************)
rootFolderId == 0

RECURSIVE Flatten(_)
Flatten(seqs) ==
  IF Len(seqs) = 0 THEN <<>> ELSE Head(seqs) \o Flatten(Tail(seqs))

DocNames ==
  << "01_" \o U.u00CD \o "ndice", "02_Desarrollo", "03_Gui" \o U.u00F3 \o "n" >>

moduleFolderName(module) ==
  "M" \o U.u00F3 \o "dulo " \o StringOf(module.moduleNumber) \o ". " \o module.moduleName

topicFolderName(topic) == topic.topicNumber \o ". " \o topic.topicName

\* the resources in the order createCourseStructure resolves them
PlanOf(courseSpec) ==
  << <<0, 0, 0>> >> \o
  Flatten([m \in 1..Len(courseSpec.modules) |->
     << <<m, 0, 0>> >> \o
     Flatten([t \in 1..Len(courseSpec.modules[m].topics) |->
        << <<m, t, 0>>, <<m, t, 1>>, <<m, t, 2>>, <<m, t, 3>> >>])])

\* every resource placed directly in the course folder
ParentOfCourse(tag) == <<0, 0, 0>>

ParentOf(tag) ==
  IF tag[3] > 0 THEN <<tag[1], tag[2], 0>> ELSE <<IF tag[2] > 0 THEN tag[1] ELSE 0, 0, 0>>

\* every resource created as a folder
KindOfFolder(tag) == "folder"

KindOf(tag) == IF tag[3] > 0 THEN "doc" ELSE "folder"

NameOf(courseSpec, tag) ==
  IF tag[3] > 0 THEN DocNames[tag[3]]
  ELSE IF tag[2] > 0 THEN topicFolderName(courseSpec.modules[tag[1]].topics[tag[2]])
  ELSE IF tag[1] > 0 THEN moduleFolderName(courseSpec.modules[tag[1]])
  ELSE courseSpec.courseName

\* the identifier resolved for a tag (ids: the identifiers resolved so far,
\* in the order of the plan)
IdOf(courseSpec, ids, tag) ==
  ids[CHOOSE s \in 1..Len(PlanOf(courseSpec)) : PlanOf(courseSpec)[s] = tag]

\* a lookup that finds nothing
findFileNever(files, name, parentId, kind) == 0

\* findFolder / findDoc: files[0] of the listing, or 0 for null
findFile(files, name, parentId, kind) ==
  Bind({i \in 1..Len(files) :
          /\ files[i].name = name
          /\ files[i].parent = parentId
          /\ files[i].kind = kind},
       LAMBDA found : IF found = {} THEN 0 ELSE Min(found))

\* the FolderStructure createCourseStructure returns
StructureOf(courseSpec, ids) ==
  [courseFolderId |-> IdOf(courseSpec, ids, <<0, 0, 0>>),
   modules |->
     [m \in 1..Len(courseSpec.modules) |->
        [moduleNumber |-> courseSpec.modules[m].moduleNumber,
         moduleName |-> courseSpec.modules[m].moduleName,
         folderId |-> IdOf(courseSpec, ids, <<m, 0, 0>>),
         topics |->
           [t \in 1..Len(courseSpec.modules[m].topics) |->
              [topicNumber |-> courseSpec.modules[m].topics[t].topicNumber,
               topicName |-> courseSpec.modules[m].topics[t].topicName,
               folderId |-> IdOf(courseSpec, ids, <<m, t, 0>>),
               docs |->
                 [topicIndexId |-> IdOf(courseSpec, ids, <<m, t, 1>>),
                  topicDevelopmentId |-> IdOf(courseSpec, ids, <<m, t, 2>>),
                  voiceoverScriptId |-> IdOf(courseSpec, ids, <<m, t, 3>>)]]]]]]

(***************************************************************************)
(* runPipeline: the report, the task list of step 3 and the settling of a  *)
(* task.                                                                   *)
(***************************************************************************)
indexFileId == "index"

\* what the failing service calls throw, as `${error}` prints them
ReadError == "Error: File not found: " \o indexFileId
DriveError == "Error: User Rate Limit Exceeded"
LimitError ==
  "TypeError: Expected " \o U.u0060 \o "concurrency" \o U.u0060
    \o " to be a number from 1 and up"
\* error.message of a failed generation request and of a failed write
GenerationError == "Empty response from OpenAI"
WriteError == "Docs API unavailable"
\* what a throwing progress callback throws
ProgressError == "Error: progress listener failed"

NewReport(now) ==
  [startTime |-> now, endTime |-> Undefined, courseName |-> "",
   indexFileId |-> indexFileId, rootFolderId |-> rootFolderId,
   courseFolderId |-> Undefined, totalTopics |-> 0, completedTopics |-> 0,
   failedTopics |-> 0, topicResults |-> <<>>, errors |-> <<>>]

RECURSIVE TotalTopics(_, _)
TotalTopics(modules, m) ==
  IF m > Len(modules) THEN 0
  ELSE Len(modules[m].topics) + TotalTopics(modules, m + 1)

\* a catch block that appends no error
CaughtSilently(rep, now, error) == [rep EXCEPT !.endTime = now]

\* the catch block of runPipeline
Caught(rep, now, error) ==
  [rep EXCEPT !.endTime = now,
              !.errors = Append(@, "Pipeline failed: " \o error)]

\* a lookup by number that finds no entry
FindByNumberNever(items, field, number) == 0

\* Array.prototype.find by number: the first position that carries it, or 0
FindByNumber(items, field, number) ==
  Bind({i \in 1..Len(items) : items[i][field] = number},
       LAMBDA found : IF found = {} THEN 0 ELSE Min(found))

\* the tasks pushed by the loops of step 3, in order; own is the position
\* of the task's topic in the spec, topicStructure what the lookup returned
TopicTasks(module, m, moduleStructure) ==
  Flatten([t \in 1..Len(module.topics) |->
    Bind(FindByNumber(moduleStructure.topics, "topicNumber",
                      module.topics[t].topicNumber),
         LAMBDA at :
           IF at = 0 THEN <<>>
           ELSE << [moduleNumber |-> module.moduleNumber,
                    topic |-> module.topics[t],
                    own |-> <<m, t>>,
                    topicStructure |-> moduleStructure.topics[at],
                    st |-> "queued",
                    written |-> 0] >>)])

TasksOf(courseSpec, structure) ==
  Flatten([m \in 1..Len(courseSpec.modules) |->
    Bind(FindByNumber(structure.modules, "moduleNumber",
                      courseSpec.modules[m].moduleNumber),
         LAMBDA at :
           IF at = 0 THEN <<>>
           ELSE TopicTasks(courseSpec.modules[m], m, structure.modules[at]))])

\* the errors pushed by the loops of step 3 for missing structure entries
TopicLookupErrors(module, moduleStructure) ==
  Flatten([t \in 1..Len(module.topics) |->
    IF FindByNumber(moduleStructure.topics, "topicNumber",
                    module.topics[t].topicNumber) # 0 THEN <<>>
    ELSE << "Topic " \o module.topics[t].topicNumber \o " not found in module "
              \o StringOf(module.moduleNumber) >>])

LookupErrors(courseSpec, structure) ==
  Flatten([m \in 1..Len(courseSpec.modules) |->
    Bind(FindByNumber(structure.modules, "moduleNumber",
                      courseSpec.modules[m].moduleNumber),
         LAMBDA at :
           IF at = 0
           THEN << "Module " \o StringOf(courseSpec.modules[m].moduleNumber)
                     \o " not found in structure" >>
           ELSE TopicLookupErrors(courseSpec.modules[m], structure.modules[at]))])

\* the TopicResult generateAndWriteTopic returns
ResultOf(task, status, error) ==
  [moduleNumber |-> task.moduleNumber,
   topicNumber |-> task.topic.topicNumber,
   topicName |-> task.topic.topicName,
   status |-> status,
   error |-> error,
   folderId |-> task.topicStructure.folderId,
   docs |-> task.topicStructure.docs]

DocIds(docs) ==
  <<docs.topicIndexId, docs.topicDevelopmentId, docs.voiceoverScriptId>>

\* the report after a failed result is recorded, with every sibling result
\* recorded so far marked failed as well
SettledFailingAll(rep, result) ==
  IF result.status = "completed"
  THEN [rep EXCEPT !.topicResults = Append(@, result),
                   !.completedTopics = @ + 1]
  ELSE [rep EXCEPT !.topicResults =
                     Append([r \in 1..Len(@) |-> [@[r] EXCEPT !.status = "failed"]],
                            result),
                   !.failedTopics = @ + 1 + rep.completedTopics,
                   !.completedTopics = 0,
                   !.errors = Append(@, "Topic " \o result.topicNumber \o ": "
                                          \o result.error)]

\* the report after a task closure has put its result in front of the others
SettledPrepending(rep, result) ==
  IF result.status = "completed"
  THEN [rep EXCEPT !.topicResults = <<result>> \o @,
                   !.completedTopics = @ + 1]
  ELSE [rep EXCEPT !.topicResults = <<result>> \o @,
                   !.failedTopics = @ + 1,
                   !.errors = Append(@, "Topic " \o result.topicNumber \o ": "
                                          \o result.error)]

\* the report after a task closure has written back counters it read before
\* any sibling settled
SettledLosingUpdate(rep, result) ==
  IF result.status = "completed"
  THEN [rep EXCEPT !.topicResults = Append(@, result),
                   !.completedTopics = 1]
  ELSE [rep EXCEPT !.topicResults = Append(@, result),
                   !.failedTopics = 1,
                   !.errors = Append(@, "Topic " \o result.topicNumber \o ": "
                                          \o result.error)]

\* the report after the task closure has recorded a result
Settled(rep, result) ==
  IF result.status = "completed"
  THEN [rep EXCEPT !.topicResults = Append(@, result),
                   !.completedTopics = @ + 1]
  ELSE [rep EXCEPT !.topicResults = Append(@, result),
                   !.failedTopics = @ + 1,
                   !.errors = Append(@, "Topic " \o result.topicNumber \o ": "
                                          \o result.error)]

(***************************************************************************)
(* State.                                                                  *)
(***************************************************************************)
VARIABLES
  content,      \* text of the index document
  clock,        \* position of the clock in ClockReadings
  parsed,       \* per call of parseIndexDocument: what its parseIndexContent
                \* call returned (spec) and its own outcome (doc)
  enableMultiPass, \* the parameter of generateTopicContent
  voicePass,    \* voiceover generation requests answered so far (0..2)
  draft,        \* the voiceover text returned by the last generation request
  voiceover,    \* GeneratedContent.voiceoverScript (Undefined before the return)
  pc,           \* the step runPipeline / createCourseStructure is at
  courseSpec,   \* the CourseSpec of the run
  concurrency,  \* config.generation.maxConcurrentTopics (0: not a valid bound)
  store,        \* the files of the document store, in creation order
  resolved,     \* the identifiers createCourseStructure has resolved so far
  calls,        \* find, create and generation requests issued so far
  tasks,        \* the topic tasks given to the limiter, in order
  writes,       \* the writeDocContent calls issued: [task, doc]
  report,       \* the RunReport
  fatal,        \* the step whose error reached the catch block of the run
  matCalls,     \* per returned createCourseStructure call: structure, calls
  providedCourseSpec, \* the third argument of runPipeline: <<>> or <<spec>>
  onProgress,   \* the fourth argument of runPipeline: "none", or what the
                \* callback does when called ("returns", "throws")
  gen,          \* one generateAndWriteTopic call: its requests and outcome
  matRuns,      \* createCourseStructure calls besides the one of `resolved`:
                \* the identifiers each has resolved and its pending create
  docFile,      \* a document of the store and the writeDocContent call on it
  exitCode,     \* of the generate command: <<>> while it runs, then <<code>>
  scan,         \* the line loop of parseModules: lines, position, loop state
  auth,         \* google/auth.ts: the token file, the cached client, the calls
  validation,   \* the last validateCourseSpecSchema call: <<>> (none) or
                \* <<[data, result]>>, its argument and what it returned
  events,       \* the arguments of the onProgress calls made so far, in order
  job           \* the activeJobs entry of the run: <<>> (no job) or <<entry>>

parserVars == <<content, clock, parsed>>
voiceVars == <<enableMultiPass, voicePass, draft, voiceover>>
pipelineVars ==
  <<pc, courseSpec, concurrency, store, resolved, calls, tasks, writes, report,
    fatal, matCalls>>
sideVars == <<matRuns, docFile, exitCode>>
extraVars == <<scan, auth, validation>>
watchVars == <<events, job>>
callVars == <<providedCourseSpec, onProgress, gen, sideVars, extraVars, watchVars>>
vars == <<parserVars, voiceVars, pipelineVars, callVars>>

\* new Date().toISOString() at the successive positions of the clock
ClockReadings == <<"2026-01-23T10:00:00.000Z", "2026-01-23T10:00:07.512Z">>
Now == ClockReadings[clock]

(***************************************************************************)
(* Index documents given to the parser: every document of at most MaxLines *)
(* lines over LinePool, and the example document of the specification.     *)
(***************************************************************************)
LinePool ==
  { "M" \o U.u00D3 \o "DULO 1: Finanzas",
    "B2. Renta fija",
    "B1.1 Invertir",
    "  B1.1 Riesgo ",
    "I2.3 " \o emojiBlue,
    "1.1 Intro",
    emojiPin \o " Resultado: Sabes invertir" }

ExampleLines ==
  << "M" \o U.u00D3 \o "DULO 1: Finanzas", "1.1 Intro", "1.2 Presupuesto",
     "M" \o U.u00D3 \o "DULO 2: Bolsa", "2.1 Acciones" >>

RECURSIVE SeqsUpTo(_, _)
SeqsUpTo(S, n) ==
  IF n = 0 THEN {<<>>}
  ELSE LET shorter == SeqsUpTo(S, n - 1)
       IN shorter \cup {Append(q, x) : q \in shorter, x \in S}

ParseInputs ==
  {Join(q, "\n") : q \in SeqsUpTo(LinePool, MaxLines)} \cup {Join(ExampleLines, "\n")}

VoiceIdle ==
  /\ enableMultiPass = TRUE
  /\ voicePass = 0
  /\ draft = Undefined
  /\ voiceover = Undefined

NoCalls == [find |-> 0, create |-> 0, generate |-> 0]

PipelineIdle ==
  /\ pc = "Idle"
  /\ courseSpec = Undefined
  /\ concurrency = 0
  /\ store = <<>>
  /\ resolved = <<>>
  /\ calls = NoCalls
  /\ tasks = <<>>
  /\ writes = {}
  /\ report = Undefined
  /\ fatal = Undefined
  /\ matCalls = <<>>

\* no concurrent createCourseStructure call, no writeDocContent call under
\* observation, the process running
\* no line loop and no authorization under observation, no onProgress
\* call made, no job
ExtraIdle ==
  /\ scan = Undefined
  /\ auth = Undefined
  /\ validation = <<>>
  /\ events = <<>>
  /\ job = <<>>

SideIdle ==
  /\ matRuns = <<>>
  /\ docFile = Undefined
  /\ exitCode = <<>>
  /\ ExtraIdle

\* runPipeline called as the command-line entry point calls it; no
\* generateAndWriteTopic call under observation
CallIdle ==
  /\ providedCourseSpec = <<>>
  /\ onProgress = "none"
  /\ gen = Undefined
  /\ SideIdle

InitParse ==
  /\ content \in ParseInputs
  /\ clock = 1
  /\ parsed = <<>>
  /\ VoiceIdle
  /\ PipelineIdle
  /\ CallIdle

\* time passes
Tick ==
  /\ clock < Len(ClockReadings)
  /\ clock' = clock + 1
  /\ UNCHANGED <<callVars, content, parsed, voiceVars, pipelineVars>>

\* a call parseIndexDocument(fileId) whose read returns content
ParseDocument ==
  /\ Len(parsed) < 2
  /\ \E spec \in {parseIndexContent(content, Now)} :
       parsed' = Append(parsed,
                   [spec |-> spec, doc |-> finishIndexDocument("index", spec, Now)])
  /\ UNCHANGED <<callVars, content, clock, voiceVars, pipelineVars>>

NextParse == Tick \/ ParseDocument

SpecParse == InitParse /\ [][NextParse]_vars

(***************************************************************************)
(* Index documents with level words and objective lines (SpecHeader):      *)
(* every document of at most MaxLines lines over HeaderPool.               *)
(***************************************************************************)
HeaderPool ==
  { "Objetivo: Aprender a invertir",
    "Objetivo:",
    "El objetivo es ahorrar",
    "Invertir con criterio",
    "M" \o U.u00D3 \o "DULO 1: Finanzas",
    "Curso ADVANCED",
    "nivel Intermedio" }

HeaderInputs == {Join(q, "\n") : q \in SeqsUpTo(HeaderPool, MaxLines)}

InitHeader ==
  /\ content \in HeaderInputs
  /\ clock = 1
  /\ parsed = <<>>
  /\ VoiceIdle
  /\ PipelineIdle
  /\ CallIdle

SpecHeader == InitHeader /\ [][NextParse]_vars

(***************************************************************************)
(* The line loop of parseModules, one line at a time (SpecLines): index    *)
(* documents of at most MaxLines lines over the lines the primary pass     *)
(* classifies, and over the lines the fallback pass sees.                  *)
(***************************************************************************)
PrimaryPool ==
  { "M" \o U.u00D3 \o "DULO 1: Finanzas",
    "B1.1 Invertir",
    "I2.3 " \o emojiBlue,
    "B2. Renta fija",
    emojiPin \o " Resultado: Sabes",
    "B1.2 Riesgo " \o emojiPin \o " Resultado: x",
    "Nivel avanzado " \o emojiPin \o " Resultado: y" }

FallbackPool ==
  { "Objetivo: Aprender a invertir",
    "1. A",
    "2) Ahorro",
    "Plan de ahorro mensual",
    "12/ab",
    "1.5Intro",
    "B2. Renta fija",
    "B1.1 Invertir" }

ScanInputs ==
  {Join(q, "\n") : q \in SeqsUpTo(PrimaryPool, MaxLines) \cup
                          SeqsUpTo(FallbackPool, MaxLines)}

\* parseModules is entered with the lines of the document
InitLines ==
  /\ content \in ScanInputs
  /\ clock = 1
  /\ parsed = <<>>
  /\ VoiceIdle
  /\ PipelineIdle
  /\ providedCourseSpec = <<>>
  /\ onProgress = "none"
  /\ gen = Undefined
  /\ matRuns = <<>>
  /\ docFile = Undefined
  /\ exitCode = <<>>
  /\ auth = Undefined
  /\ validation = <<>>
  /\ events = <<>>
  /\ job = <<>>
  /\ scan = [lines |-> SplitLines(content), i |-> 0, prev |-> ParseStart,
             st |-> ParseStart, done |-> FALSE, fallback |-> FALSE,
             modules |-> <<>>]

\* one iteration of the loop: the next line is classified
ScanLine ==
  /\ ~ scan.done
  /\ scan.i < Len(scan.lines)
  /\ \E next \in {ParseLine(scan.st, scan.lines[scan.i + 1])} :
       scan' = [scan EXCEPT !.i = @ + 1, !.prev = scan.st, !.st = next]
  /\ UNCHANGED <<parserVars, voiceVars, pipelineVars, providedCourseSpec, onProgress,
                 gen, sideVars, auth, validation,
                 watchVars>>

\* after the last line: the open module is closed, and the alternative
\* parsing is tried when no module was found
ScanEnd ==
  /\ ~ scan.done
  /\ scan.i = Len(scan.lines)
  /\ \E modules \in {CloseModule(scan.st)} :
       scan' = [scan EXCEPT
                  !.done = TRUE,
                  !.fallback = (Len(modules) = 0),
                  !.modules = IF Len(modules) = 0
                              THEN parseAlternativeFormat(scan.lines)
                              ELSE modules]
  /\ UNCHANGED <<parserVars, voiceVars, pipelineVars, providedCourseSpec, onProgress,
                 gen, sideVars, auth, validation,
                 watchVars>>

NextLines == ScanLine \/ ScanEnd

SpecLines == InitLines /\ [][NextLines]_vars

(***************************************************************************)
(* Authorization of the document store (SpecAuth), google/auth.ts: the     *)
(* token file, the module variable oauth2Client, and the calls of the      *)
(* exported functions.  The clients made so far are kept with the          *)
(* credentials set on each; a token is named by the number of the          *)
(* exchange that issued it, 0 for one saved by an earlier process.  The    *)
(* credentials file is present and well formed.                            *)
(***************************************************************************)
MaxAuthCalls == 5   \* calls logged in one run

AuthRequired ==
  "Error: Google authentication required. Please connect Google Drive first."
GrantError == "Error: invalid_grant"

isAuthenticated(a) == a.file # <<>>

\* the cached client, or a new one that is cached and given the saved token
getOAuth2Client(a) ==
  IF a.cached # 0 THEN a
  ELSE [a EXCEPT !.clients = Append(@, a.file), !.cached = Len(a.clients) + 1]

\* getAuthClient answering whether or not a token is saved
getAuthClientUnchecked(a) ==
  Bind(getOAuth2Client(a),
       LAMBDA b : [auth |-> b, ok |-> TRUE, error |-> ""])

getAuthClient(a) ==
  Bind(getOAuth2Client(a),
       LAMBDA b :
         IF ~ isAuthenticated(b)
         THEN [auth |-> b, ok |-> FALSE, error |-> AuthRequired]
         ELSE [auth |-> b, ok |-> TRUE, error |-> ""])

Logged(a, call, ok, error) ==
  [a EXCEPT !.log = Append(@, [call |-> call, ok |-> ok, error |-> error])]

InitAuth ==
  /\ content = ""
  /\ clock = 1
  /\ parsed = <<>>
  /\ VoiceIdle
  /\ PipelineIdle
  /\ providedCourseSpec = <<>>
  /\ onProgress = "none"
  /\ gen = Undefined
  /\ matRuns = <<>>
  /\ docFile = Undefined
  /\ exitCode = <<>>
  /\ scan = Undefined
  /\ validation = <<>>
  /\ events = <<>>
  /\ job = <<>>
  /\ \E file \in {<<>>, <<0>>} :
       auth = [atStart |-> file, file |-> file, cached |-> 0, clients |-> <<>>,
               pending |-> <<>>, issued |-> 0, log |-> <<>>]

authFrame ==
  <<parserVars, voiceVars, pipelineVars, providedCourseSpec, onProgress, gen,
    sideVars, scan, validation, watchVars>>

\* a Drive or Docs operation: getDriveClient / getDocsClient, then the request
StoreOperation ==
  /\ Len(auth.log) < MaxAuthCalls
  /\ \E api \in {"drive", "docs"} :
       \E r \in {getAuthClient(auth)} :
         auth' = Logged(r.auth, api, r.ok, r.error)
  /\ UNCHANGED authFrame

GetAuthUrl ==
  /\ Len(auth.log) < MaxAuthCalls
  /\ auth' = Logged(getOAuth2Client(auth), "getAuthUrl", TRUE, "")
  /\ UNCHANGED authFrame

\* exchangeCodeForTokens up to its await of client.getToken(code)
ExchangeStarts ==
  /\ Len(auth.log) < MaxAuthCalls
  /\ auth.pending = <<>>
  /\ \E b \in {getOAuth2Client(auth)} :
       auth' = [b EXCEPT !.pending = <<b.cached>>]
  /\ UNCHANGED authFrame

\* getToken resolves: the tokens are set on the client and saved
ExchangeSucceeds ==
  /\ auth.pending # <<>>
  /\ \E token \in {auth.issued + 1} :
       auth' = Logged([auth EXCEPT !.clients[auth.pending[1]] = <<token>>,
                                   !.file = <<token>>,
                                   !.issued = token,
                                   !.pending = <<>>],
                      "exchangeCodeForTokens", TRUE, "")
  /\ UNCHANGED authFrame

\* getToken rejects
ExchangeFails ==
  /\ auth.pending # <<>>
  /\ auth' = Logged([auth EXCEPT !.pending = <<>>],
                    "exchangeCodeForTokens", FALSE, GrantError)
  /\ UNCHANGED authFrame

DeleteToken ==
  /\ Len(auth.log) < MaxAuthCalls
  /\ auth' = Logged([auth EXCEPT !.file = <<>>, !.cached = 0],
                    "deleteToken", TRUE, "")
  /\ UNCHANGED authFrame

NextAuth ==
  \/ StoreOperation
  \/ GetAuthUrl
  \/ ExchangeStarts
  \/ ExchangeSucceeds
  \/ ExchangeFails
  \/ DeleteToken

SpecAuth == InitAuth /\ [][NextAuth]_vars

(***************************************************************************)
(* Voiceover drafts returned by the generation service: every text of at   *)
(* most MaxDraftLines lines over DraftLines.  generateTopicContent asks    *)
(* for a first draft, with enableMultiPass for a reviewed one, and returns *)
(* the post-processed last draft.                                          *)
(***************************************************************************)
DraftLines ==
  { "Hola a todos.",
    "",
    requiredEnding,
    "## " \o requiredEnding,
    "**" \o requiredEnding \o "**",
    "- " \o requiredEnding,
    "Nos vemos en la siguiente clase",
    "NOS VEMOS EN LA PR" \o U.u00D3 \o "XIMA CLASE.",
    "# Cierre " \o emojiPin,
    U.u0060 \o "Fin" \o U.u0060 \o " _del_ tema " }

Drafts == {Join(q, "\n") : q \in SeqsUpTo(DraftLines, MaxDraftLines)}

ParserIdle == content = "" /\ clock = 1 /\ parsed = <<>>

InitVoice ==
  /\ ParserIdle
  /\ PipelineIdle
  /\ CallIdle
  /\ enableMultiPass \in BOOLEAN
  /\ voicePass = 0
  /\ draft = Undefined
  /\ voiceover = Undefined

\* Step 3: the generation service returns the first voiceover draft
GenerateVoiceover ==
  /\ voicePass = 0
  /\ draft' \in Drafts
  /\ voicePass' = 1
  /\ UNCHANGED <<callVars, parserVars, pipelineVars, enableMultiPass, voiceover>>

\* Step 3.5: the review request returns the improved draft
ReviewVoiceover ==
  /\ enableMultiPass
  /\ voicePass = 1
  /\ draft' \in Drafts
  /\ voicePass' = 2
  /\ UNCHANGED <<callVars, parserVars, pipelineVars, enableMultiPass, voiceover>>

\* the required ending is ensured and the result normalized and returned
ReturnVoiceover ==
  /\ voicePass = IF enableMultiPass THEN 2 ELSE 1
  /\ voiceover = Undefined
  /\ \E final \in {finalVoiceover(draft)} :
       voiceover' = cleanMarkdownToPlainText(final)
  /\ UNCHANGED <<callVars, parserVars, pipelineVars, enableMultiPass, voicePass, draft>>

NextVoice == GenerateVoiceover \/ ReviewVoiceover \/ ReturnVoiceover

SpecVoice == InitVoice /\ [][NextVoice]_vars

(***************************************************************************)
(* createCourseStructure against the document store (SpecMat: two calls in *)
(* sequence with the same spec and root), and runPipeline (Spec).          *)
(***************************************************************************)
DocCourse == "Curso\nB1. Intro\nB1.1 Uno\nB1.2 Dos\nB2. Final\nB2.1 Tres"
DocSameNumber == "Curso\nB1. Intro\nB1.1 Uno\nB1.1 Dos"
DocSameTopic == "Curso\nB1. Intro\nB1.1 Uno\nB1.1 Uno"
DocInvalid == "Curso\nM" \o U.u00D3 \o "DULO 1: " \o emojiPin \o "\nB1.1 Uno"
PipelineDocs == {DocCourse, DocSameNumber, DocSameTopic, DocInvalid, ""}

(***************************************************************************)
(* Calls of the validator (SpecValid): the documents of PipelineDocs are   *)
(* parsed, and validateCourseSpecSchema is called on what the parser       *)
(* built from them and on candidates that differ from it in the fields     *)
(* of DamageKinds.                                                         *)
(***************************************************************************)
DamageKinds == {"courseName", "level", "modules"}

BadModules ==
  << [moduleNumber |-> 0, moduleName |-> "", moduleResult |-> Undefined,
      topics |-> <<>>],
     [moduleNumber |-> 2, moduleName |-> "Ahorro", moduleResult |-> Undefined,
      topics |-> << [topicNumber |-> "", topicName |-> "", status |-> "pending"],
                    [topicNumber |-> "2.2", topicName |-> "Plan",
                     status |-> "pending"] >>] >>

Damaged(spec, damage) ==
  [spec EXCEPT
     !.courseName = IF "courseName" \in damage THEN "" ELSE @,
     !.level = IF "level" \in damage THEN "experto" ELSE @,
     !.modules = IF "modules" \in damage THEN BadModules ELSE @]

InitValid ==
  /\ content \in PipelineDocs
  /\ clock = 1
  /\ parsed = <<>>
  /\ VoiceIdle
  /\ PipelineIdle
  /\ CallIdle

\* a call validateCourseSpecSchema(data)
ValidateCandidate ==
  /\ \E damage \in SUBSET DamageKinds :
       \E data \in {Damaged(parseIndexContent(content, Now), damage)} :
         validation' = <<[data |-> data,
                          result |-> validateCourseSpecSchema(data)]>>
  /\ UNCHANGED <<parserVars, voiceVars, pipelineVars, providedCourseSpec,
                 onProgress, gen, sideVars, scan, auth, watchVars>>

NextValid == Tick \/ ParseDocument \/ ValidateCandidate

SpecValid == InitValid /\ [][NextValid]_vars

\* the specs the parser accepts among PipelineDocs
MatSpecs ==
  {parseIndexDocument(indexFileId, text, ClockReadings[1]).courseSpec :
     text \in {t \in PipelineDocs :
                 parseIndexDocument(indexFileId, t, ClockReadings[1]).ok}}

\* stores createCourseStructure can start from: empty, or holding the course
\* folder of an earlier run and a folder of the same name elsewhere
MatStores ==
  { <<>>,
    << [name |-> "Curso", parent |-> rootFolderId, kind |-> "folder"],
       [name |-> "Curso", parent |-> 1, kind |-> "folder"],
       [name |-> "1.1. Uno", parent |-> 1, kind |-> "doc"] >> }

InitMat ==
  /\ ParserIdle
  /\ VoiceIdle
  /\ pc = "Structuring"
  /\ courseSpec \in MatSpecs
  /\ concurrency = 0
  /\ store \in MatStores
  /\ resolved = <<>>
  /\ calls = NoCalls
  /\ tasks = <<>>
  /\ writes = {}
  /\ report = Undefined
  /\ fatal = Undefined
  /\ matCalls = <<>>
  /\ CallIdle

\* one findOrCreateFolder / findOrCreateDoc call of createCourseStructure
ResolveNext ==
  /\ pc = "Structuring"
  /\ Len(resolved) < Len(PlanOf(courseSpec))
  /\ \E tag \in {PlanOf(courseSpec)[Len(resolved) + 1]} :
     \E parentId \in {IF tag = <<0, 0, 0>> THEN rootFolderId
                      ELSE IdOf(courseSpec, resolved, ParentOf(tag))} :
     \E existing \in {findFile(store, NameOf(courseSpec, tag), parentId, KindOf(tag))} :
       IF existing # 0
       THEN /\ resolved' = Append(resolved, existing)
            /\ calls' = [calls EXCEPT !.find = @ + 1]
            /\ store' = store
       ELSE /\ store' = Append(store, [name |-> NameOf(courseSpec, tag),
                                       parent |-> parentId, kind |-> KindOf(tag)])
            /\ resolved' = Append(resolved, Len(store) + 1)
            /\ calls' = [calls EXCEPT !.find = @ + 1, !.create = @ + 1]
  /\ UNCHANGED <<callVars, parserVars, voiceVars, pc, courseSpec, concurrency, tasks,
                 writes, report, fatal, matCalls>>

\* createCourseStructure returns; the next call starts with the same spec
StructureReturned ==
  /\ pc = "Structuring"
  /\ Len(resolved) = Len(PlanOf(courseSpec))
  /\ Len(matCalls) < 2
  /\ matCalls' = Append(matCalls, [structure |-> StructureOf(courseSpec, resolved),
                                   calls |-> calls])
  /\ resolved' = <<>>
  /\ UNCHANGED <<callVars, parserVars, voiceVars, pc, courseSpec, concurrency, store, calls,
                 tasks, writes, report, fatal>>

NextMat == ResolveNext \/ StructureReturned

SpecMat == InitMat /\ [][NextMat]_vars

Init ==
  /\ content \in PipelineDocs
  /\ clock = 1
  /\ parsed = <<>>
  /\ VoiceIdle
  /\ pc = "Parsing"
  /\ courseSpec = Undefined
  /\ concurrency \in 0..MaxN
  /\ store = <<>>
  /\ resolved = <<>>
  /\ calls = NoCalls
  /\ tasks = <<>>
  /\ writes = {}
  /\ report = NewReport(Now)
  /\ fatal = Undefined
  /\ matCalls = <<>>
  /\ CallIdle

\* an error thrown inside the try block that leaves runPipeline uncaught
ThrownPastCatch(rep, origin, error) ==
  /\ report' = rep
  /\ fatal' = origin
  /\ pc' = "Rejected"

\* an error thrown inside the try block of runPipeline by the step `origin`:
\* the catch block finalizes the report and returns it
Thrown(rep, origin, error) ==
  /\ report' = Caught(rep, Now, error)
  /\ fatal' = origin
  /\ pc' = "Returned"

\* step 1: readFileContent throws
ReadFails ==
  /\ pc = "Parsing"
  /\ providedCourseSpec = <<>>
  /\ Thrown(report, "read", ReadError)
  /\ UNCHANGED <<callVars, parserVars, voiceVars, courseSpec, concurrency, store, resolved,
                 calls, tasks, writes, matCalls>>

\* step 1: parseIndexDocument returns the spec, or throws on a schema error
ParseIndex ==
  /\ pc = "Parsing"
  /\ providedCourseSpec = <<>>
  /\ \E doc \in {parseIndexDocument(indexFileId, content, Now)} :
       IF doc.ok
       THEN /\ courseSpec' = doc.courseSpec
            /\ report' = [report EXCEPT
                            !.courseName = doc.courseSpec.courseName,
                            !.totalTopics = TotalTopics(doc.courseSpec.modules, 1)]
            /\ pc' = "Structuring"
            /\ fatal' = fatal
       ELSE /\ courseSpec' = courseSpec
            /\ Thrown(report, "validate", doc.error)
  /\ UNCHANGED <<callVars, parserVars, voiceVars, concurrency, store, resolved, calls, tasks,
                 writes, matCalls>>

\* step 2: a Drive call of createCourseStructure throws
StructureFails ==
  /\ pc = "Structuring"
  /\ Len(resolved) < Len(PlanOf(courseSpec))
  /\ calls' = [calls EXCEPT !.find = @ + 1]
  /\ Thrown(report, "structure", DriveError)
  /\ UNCHANGED <<callVars, parserVars, voiceVars, courseSpec, concurrency, store, resolved,
                 tasks, writes, matCalls>>

\* createCourseStructure returns; step 3 creates the limiter and hands it
\* one task per topic
Dispatch ==
  /\ pc = "Structuring"
  /\ Len(resolved) = Len(PlanOf(courseSpec))
  /\ \E structure \in {StructureOf(courseSpec, resolved)} :
     \E rep \in {[report EXCEPT !.courseFolderId = structure.courseFolderId]} :
       IF concurrency < 1
       THEN /\ Thrown(rep, "limit", LimitError)
            /\ tasks' = tasks
       ELSE /\ tasks' = TasksOf(courseSpec, structure)
            /\ report' = [rep EXCEPT !.errors = @ \o LookupErrors(courseSpec, structure)]
            /\ pc' = "Generating"
            /\ fatal' = fatal
  /\ UNCHANGED <<callVars, parserVars, voiceVars, courseSpec, concurrency, store, resolved,
                 calls, writes, matCalls>>

\* the tasks that have started generateAndWriteTopic and not settled
InFlight == {i \in 1..Len(tasks) : tasks[i].st \in {"generating", "writing"}}

Queued == {i \in 1..Len(tasks) : tasks[i].st = "queued"}

\* the limiter starts the oldest queued task whatever the number of running ones
StartTaskUnlimited ==
  /\ pc \in {"Generating", "Returned"}
  /\ Queued # {}
  /\ tasks' = [tasks EXCEPT ![Min(Queued)].st = "generating"]
  /\ calls' = [calls EXCEPT !.generate = @ + 1]
  /\ UNCHANGED <<callVars, parserVars, voiceVars, pc, courseSpec, concurrency, store, resolved,
                 writes, report, fatal, matCalls>>

\* a task that looks its folder up again before generating
StartTaskFinding ==
  /\ pc \in {"Generating", "Returned"}
  /\ Queued # {}
  /\ Cardinality(InFlight) < concurrency
  /\ tasks' = [tasks EXCEPT ![Min(Queued)].st = "generating"]
  /\ calls' = [calls EXCEPT !.generate = @ + 1, !.find = @ + 1]
  /\ UNCHANGED <<callVars, parserVars, voiceVars, pc, courseSpec, concurrency, store, resolved,
                 writes, report, fatal, matCalls>>

\* the limiter starts the oldest queued task: generateAndWriteTopic begins
\* and issues its first generation request
StartTask ==
  /\ pc \in {"Generating", "Returned"}
  /\ Queued # {}
  /\ Cardinality(InFlight) < concurrency
  /\ tasks' = [tasks EXCEPT ![Min(Queued)].st = "generating"]
  /\ calls' = [calls EXCEPT !.generate = @ + 1]
  /\ UNCHANGED <<callVars, parserVars, voiceVars, pc, courseSpec, concurrency, store, resolved,
                 writes, report, fatal, matCalls>>

\* Math.round(n / d) for n >= 0 and d > 0
RoundDiv(n, d) == (2 * n + d) \div (2 * d)

\* the argument of the onProgress call of a task closure
ProgressOf(rep, result) ==
  [percentage |-> RoundDiv(rep.completedTopics * 100, rep.totalTopics),
   total |-> rep.totalTopics,
   completed |-> rep.completedTopics,
   currentTopic |-> result.topicNumber \o ". " \o result.topicName]

\* the progress callback of the server: it copies its argument into the
\* entry of the job
JobProgress(entry, progress) ==
  [entry EXCEPT !.progress = progress.percentage,
                !.totalTopics = progress.total,
                !.completedTopics = progress.completed,
                !.currentTopic = progress.currentTopic]

\* the onProgress call of a task closure, when a callback was given
Notified(rep, result) ==
  IF onProgress = "none" THEN UNCHANGED <<events, job>>
  ELSE \E progress \in {ProgressOf(rep, result)} :
         /\ events' = Append(events, progress)
         /\ job' = IF onProgress = "job" /\ job # <<>>
                   THEN <<JobProgress(job[1], progress)>> ELSE job

\* a task closure that reports progress before it records the result
SettleNotifyingFirst(result) ==
  \E rep \in {Settled(report, result)} :
  \E throws \in (IF onProgress = "throws" THEN {TRUE, FALSE} ELSE {FALSE}) :
    /\ Notified(report, result)
    /\ IF throws /\ pc = "Generating"
       THEN Thrown(rep, "progress", ProgressError)
       ELSE report' = rep /\ UNCHANGED <<pc, fatal>>

\* the task closure records the result of its generateAndWriteTopic call and
\* calls the progress callback; a callback that throws rejects the promise of
\* the task, and the first rejection makes the await of Promise.all throw
Settle(result) ==
  \E rep \in {Settled(report, result)} :
  \E throws \in (IF onProgress = "throws" THEN {TRUE, FALSE} ELSE {FALSE}) :
    /\ Notified(rep, result)
    /\ IF throws /\ pc = "Generating"
       THEN Thrown(rep, "progress", ProgressError)
       ELSE report' = rep /\ UNCHANGED <<pc, fatal>>

\* generateTopicContent returns the content of the topic
GenerateOk ==
  /\ \E i \in 1..Len(tasks) :
       /\ tasks[i].st = "generating"
       /\ tasks' = [tasks EXCEPT ![i].st = "writing"]
  /\ UNCHANGED <<callVars, parserVars, voiceVars, pc, courseSpec, concurrency, store, resolved,
                 calls, writes, report, fatal, matCalls>>

\* generateTopicContent throws: the task settles with a failed result
GenerateFails ==
  /\ \E i \in 1..Len(tasks) :
       /\ tasks[i].st = "generating"
       /\ tasks' = [tasks EXCEPT ![i].st = "failed"]
       /\ Settle(ResultOf(tasks[i], "failed", GenerationError))
  /\ UNCHANGED <<providedCourseSpec, onProgress, gen, sideVars, extraVars, parserVars, voiceVars, courseSpec, concurrency, store, resolved,
                 calls, writes, matCalls>>

\* the next writeDocContent call of writeTopicContent succeeds; after the
\* third the task settles with a completed result
WriteOk ==
  /\ \E i \in 1..Len(tasks) :
       /\ tasks[i].st = "writing"
       /\ writes' = writes \cup
            {[task |-> i, doc |-> DocIds(tasks[i].topicStructure.docs)[tasks[i].written + 1]]}
       /\ IF tasks[i].written + 1 = 3
          THEN /\ tasks' = [tasks EXCEPT ![i].written = 3, ![i].st = "completed"]
               /\ Settle(ResultOf(tasks[i], "completed", Undefined))
          ELSE /\ tasks' = [tasks EXCEPT ![i].written = @ + 1]
               /\ UNCHANGED <<report, pc, fatal, watchVars>>
  /\ UNCHANGED <<providedCourseSpec, onProgress, gen, sideVars, extraVars, parserVars, voiceVars, courseSpec, concurrency, store, resolved,
                 calls, matCalls>>

\* the next writeDocContent call throws: the task settles with a failed result
WriteFails ==
  /\ \E i \in 1..Len(tasks) :
       /\ tasks[i].st = "writing"
       /\ writes' = writes \cup
            {[task |-> i, doc |-> DocIds(tasks[i].topicStructure.docs)[tasks[i].written + 1]]}
       /\ tasks' = [tasks EXCEPT ![i].st = "failed"]
       /\ Settle(ResultOf(tasks[i], "failed", WriteError))
  /\ UNCHANGED <<providedCourseSpec, onProgress, gen, sideVars, extraVars, parserVars, voiceVars, courseSpec, concurrency, store, resolved,
                 calls, matCalls>>

\* Promise.all resolves: the report is returned
ReturnReport ==
  /\ pc = "Generating"
  /\ \A i \in 1..Len(tasks) : tasks[i].st \in {"completed", "failed"}
  /\ report' = [report EXCEPT !.endTime = Now]
  /\ pc' = "Returned"
  /\ UNCHANGED <<callVars, parserVars, voiceVars, courseSpec, concurrency, store, resolved,
                 calls, tasks, writes, fatal, matCalls>>

Next ==
  \/ ReadFails
  \/ ParseIndex
  \/ ResolveNext
  \/ StructureFails
  \/ Dispatch
  \/ StartTask
  \/ GenerateOk
  \/ GenerateFails
  \/ WriteOk
  \/ WriteFails
  \/ ReturnReport

Spec == Init /\ [][Next]_vars

(***************************************************************************)
(* runPipeline as the HTTP server calls it (SpecApi): with a CourseSpec    *)
(* built from the request body and a progress callback.                    *)
(***************************************************************************)
\* the CourseSpec POST /api/modules/generate-content builds from the
\* courseStructure of the request body
toCourseSpec(courseStructure, now) ==
  [courseName |-> courseStructure.courseTitle,
   level |-> "intermedio",
   objective |-> courseStructure.courseDescription,
   modules |->
     [m \in 1..Len(courseStructure.modules) |->
        LET mod == courseStructure.modules[m]
            number == IF mod.number # 0 THEN mod.number ELSE m
        IN [moduleNumber |-> number,
            moduleName |-> mod.title,
            topics |->
              IF Len(mod.topics) > 0
              THEN [t \in 1..Len(mod.topics) |->
                      [topicNumber |-> StringOf(number) \o "." \o StringOf(t),
                       topicName |-> mod.topics[t],
                       description |-> mod.description]]
              ELSE << [topicNumber |-> StringOf(number) \o ".1",
                       topicName |-> mod.title,
                       description |-> mod.description] >>]],
   metadata |-> [sourceFileId |-> "module-workflow", parsedAt |-> now]]

\* request bodies: a course of one module with two topics, and a course
\* whose title and module title are empty strings
RequestBodies ==
  { [courseTitle |-> "Curso", courseDescription |-> "Aprender",
     modules |-> << [number |-> 1, title |-> "Intro", description |-> "",
                     topics |-> <<"Uno", "Dos">>] >>],
    [courseTitle |-> "", courseDescription |-> "",
     modules |-> << [number |-> 0, title |-> "", description |-> "",
                     topics |-> <<>>] >>] }

InitApi ==
  /\ clock = 1
  /\ parsed = <<>>
  /\ VoiceIdle
  /\ \/ /\ providedCourseSpec = <<>>
        /\ content \in PipelineDocs
     \/ /\ providedCourseSpec \in {<<toCourseSpec(b, Now)>> : b \in RequestBodies}
        /\ content = ""
  /\ onProgress \in {"none", "returns", "throws"}
  /\ gen = Undefined
  /\ SideIdle
  /\ pc = "Parsing"
  /\ courseSpec = Undefined
  /\ concurrency \in 0..MaxN
  /\ store = <<>>
  /\ resolved = <<>>
  /\ calls = NoCalls
  /\ tasks = <<>>
  /\ writes = {}
  /\ report = NewReport(Now)
  /\ fatal = Undefined
  /\ matCalls = <<>>

\* step 1 with a CourseSpec given by the caller: it is used as it is
UseProvided ==
  /\ pc = "Parsing"
  /\ providedCourseSpec # <<>>
  /\ courseSpec' = providedCourseSpec[1]
  /\ report' = [report EXCEPT
                  !.courseName = providedCourseSpec[1].courseName,
                  !.totalTopics = TotalTopics(providedCourseSpec[1].modules, 1)]
  /\ pc' = "Structuring"
  /\ UNCHANGED <<callVars, parserVars, voiceVars, concurrency, store, resolved,
                 calls, tasks, writes, fatal, matCalls>>

NextApi == UseProvided \/ Next

SpecApi == InitApi /\ [][NextApi]_vars

\* every step of a run is a continuation the event loop runs once the call
\* it awaits has returned or failed, and every external call does one or
\* the other; the limiter starts a queued task in the job it queues when a
\* running one ends
Scheduling ==
  /\ WF_vars(UseProvided)
  /\ WF_vars(ReadFails \/ ParseIndex)
  /\ WF_vars(ResolveNext \/ StructureFails)
  /\ WF_vars(Dispatch)
  /\ WF_vars(StartTask)
  /\ WF_vars(GenerateOk \/ GenerateFails)
  /\ WF_vars(WriteOk \/ WriteFails)
  /\ WF_vars(ReturnReport)

SpecApiFair == InitApi /\ [][NextApi]_vars /\ Scheduling

(***************************************************************************)
(* One generateAndWriteTopic call (SpecTopic): the generation requests of  *)
(* generateTopicContent, each a generateContent call retried by pRetry,    *)
(* the decoding of the topic index by generateJSON, and the three writes.  *)
(***************************************************************************)
\* the retries option generateContent gives pRetry
retries == 3

\* pRetry after a failed attempt: it runs the function again while retries
\* are left, whatever the error (no attempt throws an AbortError)
RetryAfterAlways(errors) == TRUE

RetryAfter(errors) == Len(errors) <= retries

\* error.message of the failures of one attempt: the empty completion, and
\* what the generation service answers to a bad key and to a burst
GenErrors ==
  { GenerationError, "401 Incorrect API key provided", "429 Rate limit reached" }

isRetryableError(message) ==
  \E lower \in {ToLowerCase(message)} :
    \/ Includes(lower, "429") \/ Includes(lower, "rate limit")
    \/ Includes(lower, "500") \/ Includes(lower, "502")
    \/ Includes(lower, "503") \/ Includes(lower, "504")
    \/ Includes(lower, "econnreset") \/ Includes(lower, "etimedout")
    \/ Includes(lower, "network")

fence == U.u0060 \o U.u0060 \o U.u0060

\* generateJSON: the text handed to JSON.parse
cleanContent(response) ==
  LET trimmed == Trim(response)
      noJson == IF StartsWith(trimmed, fence \o "json") THEN From(trimmed, 8)
                ELSE trimmed
      noOpen == IF StartsWith(noJson, fence) THEN From(noJson, 4) ELSE noJson
      noClose == IF EndsWith(noOpen, fence)
                 THEN SubSeq(noOpen, 1, Len(noOpen) - 3) ELSE noOpen
  IN Trim(noClose)

\* the completions the topic index request can get
IndexResponses ==
  { "{\"sections\":[]}",
    fence \o "json\n{\"sections\":[]}\n" \o fence,
    "{}",
    "Lo siento",
    fence \o "json\nLo siento\n" \o fence }

\* JSON.parse accepts the text
IsJsonText(text) == text \in {"{}", "{\"sections\":[]}"}

\* formatTopicIndexAsText can iterate index.sections
HasSections(text) == text = "{\"sections\":[]}"

DecodeError ==
  "Invalid JSON response from OpenAI: SyntaxError: Unexpected token L in JSON at position 0"
FormatError == "index.sections is not iterable"

\* the generation requests of generateTopicContent
GenSteps ==
  {"index", "development", "developmentReview", "voiceover", "voiceoverReview"}

\* a generateTopicContent that never reviews
NextStepNoReview(step, multiPass) ==
  CASE step = "index" -> "development"
    [] step = "development" -> "voiceover"
    [] step = "developmentReview" -> "voiceover"
    [] step = "voiceover" -> "write"
    [] step = "voiceoverReview" -> "write"

NextStep(step, multiPass) ==
  CASE step = "index" -> "development"
    [] step = "development" -> IF multiPass THEN "developmentReview" ELSE "voiceover"
    [] step = "developmentReview" -> "voiceover"
    [] step = "voiceover" -> IF multiPass THEN "voiceoverReview" ELSE "write"
    [] step = "voiceoverReview" -> "write"

\* a catch block that records the error and lets the call go on
FailedKeepsGoing(g, error) == [g EXCEPT !.error = error]

\* a catch block that clears the documents written so far
FailedRollingBack(g, error) ==
  [g EXCEPT !.step = "returned", !.status = "failed", !.error = error,
            !.written = 0, !.docs = <<>>]

\* the catch block of generateAndWriteTopic: the result is failed
Failed(g, error) ==
  [g EXCEPT !.step = "returned", !.status = "failed", !.error = error]

\* the completion the service returns to a request other than the index
Completion(step) == "Texto de " \o step

\* the variable of generateTopicContent the prompt of a request is built from
PromptInput(g, step) ==
  CASE step = "index" -> Undefined
    [] step = "development" -> g.topicIndex
    [] step = "developmentReview" -> g.topicDevelopment
    [] step = "voiceover" -> g.topicDevelopment
    [] step = "voiceoverReview" -> g.voiceoverScript

\* one attempt of the current generateContent call; the first attempt of a
\* call is the request, built from the variables as they are then
Attempt(g) ==
  IF g.errors = <<>>
  THEN [g EXCEPT !.requests[g.step] = @ + 1,
                 !.issued = Append(@, g.step),
                 !.inputs[g.step] = PromptInput(g, g.step)]
  ELSE [g EXCEPT !.requests[g.step] = @ + 1]

\* the assignment of the awaited result of a request
Assigned(g, step, text) ==
  CASE step = "index" -> [g EXCEPT !.topicIndex = text]
    [] step \in {"development", "developmentReview"} ->
         [g EXCEPT !.topicDevelopment = text]
    [] step \in {"voiceover", "voiceoverReview"} ->
         [g EXCEPT !.voiceoverScript = text]

\* the documents of a topic in the order writeTopicContent writes them
TopicDocs == <<"topicIndexId", "topicDevelopmentId", "voiceoverScriptId">>

InitTopic ==
  /\ ParserIdle
  /\ enableMultiPass \in BOOLEAN
  /\ voicePass = 0
  /\ draft = Undefined
  /\ voiceover = Undefined
  /\ PipelineIdle
  /\ providedCourseSpec = <<>>
  /\ onProgress = "none"
  /\ SideIdle
  /\ gen = [step |-> "index", errors |-> <<>>,
            requests |-> [s \in GenSteps |-> 0],
            issued |-> <<>>, inputs |-> [s \in GenSteps |-> Undefined],
            topicIndex |-> Undefined, topicDevelopment |-> Undefined,
            voiceoverScript |-> Undefined,
            written |-> 0, docs |-> <<>>, status |-> "pending", error |-> Undefined]

\* one attempt of the current generateContent call returns a completion
RequestOk ==
  /\ gen.step \in GenSteps
  /\ \E response \in (IF gen.step = "index" THEN IndexResponses
                       ELSE {Completion(gen.step)}) :
     \E g \in {Attempt(gen)} :
     \E text \in {IF gen.step = "index" THEN cleanContent(response) ELSE response} :
       gen' = IF gen.step = "index" /\ ~ IsJsonText(text) THEN Failed(g, DecodeError)
              ELSE IF gen.step = "index" /\ ~ HasSections(text) THEN Failed(g, FormatError)
              ELSE [Assigned(g, gen.step, text) EXCEPT
                      !.step = NextStep(gen.step, enableMultiPass),
                      !.errors = <<>>]
  /\ UNCHANGED <<parserVars, voiceVars, pipelineVars, providedCourseSpec, onProgress,
                 sideVars,
                 extraVars, watchVars>>

\* one attempt of the current generateContent call throws
RequestFails ==
  /\ gen.step \in GenSteps
  /\ \E error \in GenErrors :
     \E g \in {[Attempt(gen) EXCEPT !.errors = Append(@, error)]} :
       gen' = IF RetryAfter(g.errors) THEN g ELSE Failed(g, error)
  /\ UNCHANGED <<parserVars, voiceVars, pipelineVars, providedCourseSpec, onProgress,
                 sideVars,
                 extraVars, watchVars>>

\* the next writeDocContent call of writeTopicContent succeeds
WriteDocOk ==
  /\ gen.step = "write"
  /\ \E g \in {[gen EXCEPT !.docs = Append(@, TopicDocs[gen.written + 1])]} :
       gen' = IF gen.written + 1 = 3
              THEN [g EXCEPT !.written = 3, !.step = "returned", !.status = "completed"]
              ELSE [g EXCEPT !.written = @ + 1]
  /\ UNCHANGED <<parserVars, voiceVars, pipelineVars, providedCourseSpec, onProgress,
                 sideVars,
                 extraVars, watchVars>>

\* the next writeDocContent call of writeTopicContent throws
WriteDocFails ==
  /\ gen.step = "write"
  /\ gen' = Failed(gen, WriteError)
  /\ UNCHANGED <<parserVars, voiceVars, pipelineVars, providedCourseSpec, onProgress,
                 sideVars,
                 extraVars, watchVars>>

NextTopic == RequestOk \/ RequestFails \/ WriteDocOk \/ WriteDocFails

SpecTopic == InitTopic /\ [][NextTopic]_vars

(***************************************************************************)
(* Two createCourseStructure calls running at the same time on one store   *)
(* (SpecRace), as two background jobs of the HTTP server do.  Each         *)
(* findOrCreate awaits its lookup and then, when nothing was found, its    *)
(* create: other calls can run between the two.                            *)
(***************************************************************************)
\* the course both calls materialize: one module with one topic
DocRace == "Curso\nB1. Intro\nB1.1 Uno"

InitRace ==
  /\ ParserIdle
  /\ VoiceIdle
  /\ pc = "Structuring"
  /\ courseSpec = parseIndexDocument(indexFileId, DocRace, ClockReadings[1]).courseSpec
  /\ concurrency = 0
  /\ store \in MatStores
  /\ resolved = <<>>
  /\ calls = NoCalls
  /\ tasks = <<>>
  /\ writes = {}
  /\ report = Undefined
  /\ fatal = Undefined
  /\ matCalls = <<>>
  /\ providedCourseSpec = <<>>
  /\ onProgress = "none"
  /\ gen = Undefined
  /\ docFile = Undefined
  /\ exitCode = <<>>
  /\ ExtraIdle
  /\ matRuns = << [resolved |-> <<>>, pending |-> FALSE],
                  [resolved |-> <<>>, pending |-> FALSE] >>

\* the folder the next resource of the call lies in
RaceParent(run, tag) ==
  IF tag = <<0, 0, 0>> THEN rootFolderId
  ELSE IdOf(courseSpec, run.resolved, ParentOf(tag))

\* findFolder / findDoc of the next findOrCreate of call r returns
RaceFind(r) ==
  /\ ~ matRuns[r].pending
  /\ Len(matRuns[r].resolved) < Len(PlanOf(courseSpec))
  /\ \E tag \in {PlanOf(courseSpec)[Len(matRuns[r].resolved) + 1]} :
     \E existing \in {findFile(store, NameOf(courseSpec, tag),
                                RaceParent(matRuns[r], tag), KindOf(tag))} :
       matRuns' = IF existing # 0
                  THEN [matRuns EXCEPT ![r].resolved = Append(@, existing)]
                  ELSE [matRuns EXCEPT ![r].pending = TRUE]
  /\ calls' = [calls EXCEPT !.find = @ + 1]
  /\ UNCHANGED <<parserVars, voiceVars, pc, courseSpec, concurrency, store,
                 resolved, tasks, writes, report, fatal, matCalls,
                 providedCourseSpec, onProgress, gen, docFile, exitCode,
                 extraVars, watchVars>>

\* createFolder / createDoc of the findOrCreate of call r returns
RaceCreate(r) ==
  /\ matRuns[r].pending
  /\ \E tag \in {PlanOf(courseSpec)[Len(matRuns[r].resolved) + 1]} :
       store' = Append(store, [name |-> NameOf(courseSpec, tag),
                               parent |-> RaceParent(matRuns[r], tag),
                               kind |-> KindOf(tag)])
  /\ matRuns' = [matRuns EXCEPT ![r].resolved = Append(@, Len(store) + 1),
                                ![r].pending = FALSE]
  /\ calls' = [calls EXCEPT !.create = @ + 1]
  /\ UNCHANGED <<parserVars, voiceVars, pc, courseSpec, concurrency,
                 resolved, tasks, writes, report, fatal, matCalls,
                 providedCourseSpec, onProgress, gen, docFile, exitCode,
                 extraVars, watchVars>>

NextRace == \E r \in {1, 2} : RaceFind(r) \/ RaceCreate(r)

SpecRace == InitRace /\ [][NextRace]_vars

(***************************************************************************)
(* createCourseStructure calls in sequence, the first of which may fail    *)
(* partway (SpecResume).                                                   *)
(***************************************************************************)
\* a lookup of the first call throws: the call ends with what it resolved
StructureAborts ==
  /\ pc = "Structuring"
  /\ matRuns = <<>>
  /\ matCalls = <<>>
  /\ Len(resolved) < Len(PlanOf(courseSpec))
  /\ calls' = [calls EXCEPT !.find = @ + 1]
  /\ matRuns' = << [resolved |-> resolved, pending |-> FALSE] >>
  /\ resolved' = <<>>
  /\ UNCHANGED <<parserVars, voiceVars, pc, courseSpec, concurrency, store,
                 tasks, writes, report, fatal, matCalls,
                 providedCourseSpec, onProgress, gen, docFile, exitCode,
                 extraVars, watchVars>>

NextResume == StructureAborts \/ NextMat

SpecResume == InitMat /\ [][NextResume]_vars

(***************************************************************************)
(* writeDocContent calls in sequence on one document (SpecWrite).  The     *)
(* body of a document is its text followed by the final newline; the       *)
(* character at index k of the Docs API is the k-th of the body.           *)
(***************************************************************************)
\* bodies of the document before the first write, and texts written
DocBodies ==
  {"\n", "a\n", "Texto anterior\n", "uno\ndos\n", "TEMA\n\nContenido viejo\n"}
DocTexts ==
  {"a", "Nuevo", "x\ny", "Texto anterior", "TEMA\n\nContenido", requiredEnding}

\* deleteContentRange: the characters from startIndex up to endIndex - 1
DeleteContentRange(body, startIndex, endIndex) ==
  SubSeq(body, 1, startIndex - 1) \o SubSeq(body, endIndex, Len(body))

\* insertText at a location
InsertText(body, index, text) ==
  SubSeq(body, 1, index - 1) \o text \o SubSeq(body, index, Len(body))

\* the requests of a write that never deletes
WriteRequestsInsertOnly(endIndex, text) ==
  << [op |-> "insertText", startIndex |-> 1, endIndex |-> 1, text |-> text] >>

\* the requests writeDocContent builds from the endIndex it read
WriteRequests(endIndex, text) ==
  (IF endIndex > 2
   THEN << [op |-> "deleteContentRange", startIndex |-> 1,
            endIndex |-> endIndex - 1, text |-> ""] >>
   ELSE <<>>)
  \o << [op |-> "insertText", startIndex |-> 1, endIndex |-> 1, text |-> text] >>

\* batchUpdate: the requests applied in order
RECURSIVE ApplyRequests(_, _, _)
ApplyRequests(body, requests, i) ==
  IF i > Len(requests) THEN body
  ELSE ApplyRequests(
         IF requests[i].op = "deleteContentRange"
         THEN DeleteContentRange(body, requests[i].startIndex, requests[i].endIndex)
         ELSE InsertText(body, requests[i].startIndex, requests[i].text),
         requests, i + 1)

InitWrite ==
  /\ ParserIdle
  /\ VoiceIdle
  /\ PipelineIdle
  /\ providedCourseSpec = <<>>
  /\ onProgress = "none"
  /\ gen = Undefined
  /\ matRuns = <<>>
  /\ exitCode = <<>>
  /\ ExtraIdle
  /\ \E body \in DocBodies, text \in DocTexts :
       docFile = [body |-> body, text |-> text, endIndex |-> 0, pc |-> "called"]

\* documents.get returns: the endIndex of the last element of the body
GetDocument ==
  /\ docFile.pc = "called"
  /\ docFile' = [docFile EXCEPT !.endIndex = Len(docFile.body) + 1, !.pc = "got"]
  /\ UNCHANGED <<parserVars, voiceVars, pipelineVars, providedCourseSpec,
                 onProgress, gen, matRuns, exitCode,
                 extraVars, watchVars>>

\* documents.batchUpdate returns: writeDocContent completes
BatchUpdate ==
  /\ docFile.pc = "got"
  /\ docFile' = [docFile EXCEPT
                   !.body = ApplyRequests(@, WriteRequests(docFile.endIndex,
                                                           docFile.text), 1),
                   !.pc = "written"]
  /\ UNCHANGED <<parserVars, voiceVars, pipelineVars, providedCourseSpec,
                 onProgress, gen, matRuns, exitCode,
                 extraVars, watchVars>>

\* a rerun writes the document again
WriteAgain ==
  /\ docFile.pc = "written"
  /\ \E text \in DocTexts :
       docFile' = [docFile EXCEPT !.text = text, !.endIndex = 0, !.pc = "called"]
  /\ UNCHANGED <<parserVars, voiceVars, pipelineVars, providedCourseSpec,
                 onProgress, gen, matRuns, exitCode,
                 extraVars, watchVars>>

NextWrite == GetDocument \/ BatchUpdate \/ WriteAgain

SpecWrite == InitWrite /\ [][NextWrite]_vars

(***************************************************************************)
(* The generate command of the command line (SpecCli): runPipeline, then   *)
(* the report is saved and the process exits.                              *)
(***************************************************************************)
\* an exit code that ignores the report
ExitCodeZero(rep) == 0

\* an exit code that also reports the errors of the run
ExitCodeOnErrors(rep) == IF rep.failedTopics > 0 \/ rep.errors # <<>> THEN 1 ELSE 0

\* process.exit(report.failedTopics > 0 ? 1 : 0)
ExitCodeOf(rep) == IF rep.failedTopics > 0 THEN 1 ELSE 0

\* the report is saved and the command exits
GenerateExits ==
  /\ pc = "Returned"
  /\ job = <<>>
  /\ exitCode = <<>>
  /\ exitCode' = <<ExitCodeOf(report)>>
  /\ pc' = "Exited"
  /\ UNCHANGED <<parserVars, voiceVars, courseSpec, concurrency, store, resolved,
                 calls, tasks, writes, report, fatal, matCalls,
                 providedCourseSpec, onProgress, gen, matRuns, docFile,
                 extraVars, watchVars>>

\* saving the report throws: the catch block of the command exits with 1
SaveReportFails ==
  /\ pc = "Returned"
  /\ job = <<>>
  /\ exitCode = <<>>
  /\ exitCode' = <<1>>
  /\ fatal' = "save"
  /\ pc' = "Exited"
  /\ UNCHANGED <<parserVars, voiceVars, courseSpec, concurrency, store, resolved,
                 calls, tasks, writes, report, matCalls,
                 providedCourseSpec, onProgress, gen, matRuns, docFile,
                 extraVars, watchVars>>

NextCli == Next \/ GenerateExits \/ SaveReportFails

SpecCli == Init /\ [][NextCli]_vars

(***************************************************************************)
(* A generation job of the HTTP server (SpecJob): POST /api/generate and   *)
(* POST /api/modules/generate-content put an entry in activeJobs, answer,  *)
(* and run the pipeline in the background with a callback that updates the *)
(* entry.  SpecCallers has the runs of both callers, command and server.   *)
(***************************************************************************)
SaveError == "ENOSPC: no space left on device"

\* the entry a request handler puts in activeJobs
NewJob ==
  [status |-> "running", progress |-> 0, totalTopics |-> 0, completedTopics |-> 0,
   currentTopic |-> "Initializing...", error |-> <<>>, report |-> <<>>]

\* the entry that replaces the one of the job once the report is saved
CompletedJob(rep) ==
  [status |-> "completed", progress |-> 100, totalTopics |-> rep.totalTopics,
   completedTopics |-> rep.completedTopics, currentTopic |-> "Done",
   error |-> <<>>, report |-> <<rep>>]

InitJob ==
  /\ clock = 1
  /\ parsed = <<>>
  /\ VoiceIdle
  /\ \/ /\ providedCourseSpec = <<>>
        /\ content \in PipelineDocs
     \/ /\ providedCourseSpec \in {<<toCourseSpec(b, Now)>> : b \in RequestBodies}
        /\ content = ""
  /\ onProgress = "job"
  /\ gen = Undefined
  /\ matRuns = <<>>
  /\ docFile = Undefined
  /\ exitCode = <<>>
  /\ scan = Undefined
  /\ auth = Undefined
  /\ validation = <<>>
  /\ events = <<>>
  /\ job = <<NewJob>>
  /\ pc = "Parsing"
  /\ courseSpec = Undefined
  /\ concurrency \in 0..MaxN
  /\ store = <<>>
  /\ resolved = <<>>
  /\ calls = NoCalls
  /\ tasks = <<>>
  /\ writes = {}
  /\ report = NewReport(Now)
  /\ fatal = Undefined
  /\ matCalls = <<>>

\* the job marked completed while the pipeline is still running
JobCompletedEarly ==
  /\ pc \in {"Generating", "Returned"}
  /\ job # <<>>
  /\ job[1].status = "running"
  /\ job' = <<CompletedJob(report)>>
  /\ UNCHANGED <<parserVars, voiceVars, pipelineVars, providedCourseSpec, onProgress,
                 gen, sideVars, extraVars, events>>

\* runPipeline has returned and the report is saved: the job is completed
JobCompleted ==
  /\ pc = "Returned"
  /\ job # <<>>
  /\ job[1].status = "running"
  /\ job' = <<CompletedJob(report)>>
  /\ UNCHANGED <<parserVars, voiceVars, pipelineVars, providedCourseSpec, onProgress,
                 gen, sideVars, extraVars, events>>

\* runPipeline has rejected, or saving the report throws: the catch block of
\* the background function marks the job failed
JobFailed ==
  /\ pc \in {"Returned", "Rejected"}
  /\ job # <<>>
  /\ job[1].status = "running"
  /\ job' = <<[job[1] EXCEPT !.status = "failed", !.error = <<SaveError>>]>>
  /\ UNCHANGED <<parserVars, voiceVars, pipelineVars, providedCourseSpec, onProgress,
                 gen, sideVars, extraVars, events>>

NextJob == NextApi \/ JobCompleted \/ JobFailed

SpecJob == InitJob /\ [][NextJob]_vars

NextCallers ==
  \/ NextApi
  \/ GenerateExits
  \/ SaveReportFails
  \/ JobCompleted
  \/ JobFailed

\* a run started by the generate command, or by the server for a job
InitCallers == Init \/ InitJob

SpecCallers == InitCallers /\ [][NextCallers]_vars

(***************************************************************************)
(* Claims about the index parser (specification SpecParse).                *)
(***************************************************************************)
\* the line opens a module in the primary pass (shape a or b)
IsHeaderLine(line) ==
  /\ ~ IsNivelLine(line)
  /\ ModuloMatch(line)[1] \/ (ModuleHeaderMatch(line)[1] /\ ~ HasDecimalPrefix(line))

\* the line is a letter-prefixed topic line whose cleaned name is not empty
IsRecognizedTopicLine(line) ==
  /\ ~ IsNivelLine(line)
  /\ ~ IsHeaderLine(line)
  /\ TopicMatch(line)[1]
  /\ Trim(RemoveChars(TopicMatch(line)[5], TopicNameStrip \cup {U.uDD35})) # ""

LineKinds(lines) ==
  [i \in 1..Len(lines) |->
     IF IsHeaderLine(lines[i]) THEN "header"
     ELSE IF IsRecognizedTopicLine(lines[i]) THEN "topic"
     ELSE "other"]

\* the header positions (0: the start of the text) whose block, up to the
\* next header, holds a recognized topic line
NonEmptyBlocksOf(kinds) ==
  { b \in {0} \cup {i \in 1..Len(kinds) : kinds[i] = "header"} :
      \E i \in (b + 1)..Len(kinds) :
        /\ kinds[i] = "topic"
        /\ \A j \in (b + 1)..i : kinds[j] # "header" }

EmptyBlocksOf(kinds) ==
  {i \in 1..Len(kinds) : kinds[i] = "header"} \ NonEmptyBlocksOf(kinds)

\* C4: the moduleNumber fields of the modules returned by parseIndexContent
\* are, in order, exactly 1, 2, ..., k.
C4_ModuleNumbersContiguous ==
  \A c \in 1..Len(parsed) :
    \A i \in 1..Len(parsed[c].spec.modules) :
      parsed[c].spec.modules[i].moduleNumber = i

\* C5: every module returned by parseIndexContent has at least one topic, and
\* a header followed by no recognized topic line before the next header or
\* the end of input produces no module: the primary pass emits one module
\* per non-empty block, and when every block is empty the only module that
\* can be returned is the synthetic one of the fallback pass.
C5_EmptyModuleElision ==
  Len(parsed) >= 1 =>
    LET kinds == LineKinds(SplitLines(content))
        blocks == Cardinality(NonEmptyBlocksOf(kinds))
    IN \A c \in 1..Len(parsed) :
         LET modules == parsed[c].spec.modules
         IN /\ \A i \in 1..Len(modules) : Len(modules[i].topics) >= 1
            /\ blocks > 0 => Len(modules) = blocks
            /\ blocks = 0 =>
                 /\ Len(modules) <= 1
                 /\ \A i \in 1..Len(modules) :
                      modules[i].moduleName = "Contenido del curso"

\* a parsed text in which one header block was empty and another was not
C5_Witness ==
  /\ Len(parsed) >= 1
  /\ LET kinds == LineKinds(SplitLines(content))
     IN NonEmptyBlocksOf(kinds) # {} /\ EmptyBlocksOf(kinds) # {}
  /\ Len(parsed[1].spec.modules) >= 1

WithoutParsedAt(spec) == [spec EXCEPT !.metadata.parsedAt = Undefined]

TopicNumbers(module) == [i \in 1..Len(module.topics) |-> module.topics[i].topicNumber]

\* C8: parsing the example document yields exactly 2 modules, module 1 with
\* the topics 1.1 and 1.2 and module 2 with the single topic 2.1.
C8_ExampleScenario ==
  \A c \in 1..Len(parsed) :
    content = Join(ExampleLines, "\n") =>
      LET modules == parsed[c].spec.modules
      IN /\ Len(modules) = 2
         /\ modules[1].moduleNumber = 1
         /\ TopicNumbers(modules[1]) = <<"1.1", "1.2">>
         /\ modules[2].moduleNumber = 2
         /\ TopicNumbers(modules[2]) = <<"2.1">>

(***************************************************************************)
(* Claims about the voiceover post-processing (specification SpecVoice).   *)
(***************************************************************************)
\* C7: every voiceoverScript returned by generateTopicContent, after
\* trimming, ends with exactly the sentence 'Nos vemos en la siguiente
\* clase.', whatever draft the generation service returned, with or without
\* a review pass.
C7_VoiceoverTermination ==
  voiceover # Undefined => EndsWith(Trim(voiceover), requiredEnding)

(***************************************************************************)
(* Claims about createCourseStructure (specification SpecMat).             *)
(***************************************************************************)
\* C1: two sequential calls of createCourseStructure with the same spec and
\* root against the same store return identical FolderStructure trees, and
\* the second call issues no create call.
C1_IdempotentMaterialization ==
  Len(matCalls) = 2 =>
    /\ matCalls[2].structure = matCalls[1].structure
    /\ matCalls[2].calls.create = matCalls[1].calls.create

\* both calls have returned for a spec with topics, the first having created
\* folders and documents
C1_Witness ==
  /\ Len(matCalls) = 2
  /\ Len(matCalls[1].structure.modules) >= 1
  /\ matCalls[1].calls.create >= 5

(***************************************************************************)
(* Claims about runPipeline (specification Spec).                          *)
(***************************************************************************)
\* C2: in every reachable state the number of topic tasks that have started
\* generateAndWriteTopic and not settled is at most maxConcurrentTopics.
C2_ConcurrencyBound == Cardinality(InFlight) <= concurrency

\* the bound is reached while a task is still waiting in the limiter
C2_Witness ==
  /\ concurrency >= 1
  /\ Cardinality(InFlight) = concurrency
  /\ Queued # {}

FailedTasks == {i \in 1..Len(tasks) : tasks[i].st = "failed"}

SameTopic(result, task) ==
  /\ result.moduleNumber = task.moduleNumber
  /\ result.topicNumber = task.topic.topicNumber
  /\ result.topicName = task.topic.topicName

\* C3: when generation or writing failed for exactly one topic, the returned
\* report holds one result per topic, the result of the failing topic is the
\* only one with status failed and carries the error message, every other
\* result is completed, failedTopics = 1 and completedTopics + failedTopics
\* = totalTopics.
C3_FailureIsolation ==
  (pc = "Returned" /\ Cardinality(FailedTasks) = 1) =>
    LET f == CHOOSE i \in FailedTasks : TRUE
        results == report.topicResults
    IN /\ Len(results) = report.totalTopics
       /\ Len(tasks) = report.totalTopics
       /\ report.failedTopics = 1
       /\ report.completedTopics + report.failedTopics = report.totalTopics
       /\ \A i \in 1..Len(tasks) :
            Cardinality({r \in 1..Len(results) : SameTopic(results[r], tasks[i])})
              = Cardinality({j \in 1..Len(tasks) : SameTopic(ResultOf(tasks[j], "", ""), tasks[i])})
       /\ \E r \in 1..Len(results) :
            /\ SameTopic(results[r], tasks[f])
            /\ results[r].status = "failed"
            /\ results[r].error \in {GenerationError, WriteError}
            /\ \A q \in 1..Len(results) : q # r => results[q].status = "completed"

\* a returned run of three topics in which exactly one topic failed
C3_Witness ==
  /\ pc = "Returned"
  /\ Cardinality(FailedTasks) = 1
  /\ Len(tasks) >= 3
  /\ report.completedTopics = 2

\* the documents materialization resolved for the topic of the task itself
OwnDocs(task) ==
  DocIds(StructureOf(courseSpec, resolved).modules[task.own[1]].topics[task.own[2]].docs)

\* C9: no two topic tasks of one run write to the same document, and when a
\* task completes the three documents of its own topic have been written.
C9_TasksWriteOwnDocuments ==
  /\ \A w1 \in writes : \A w2 \in writes : w1.doc = w2.doc => w1.task = w2.task
  /\ \A i \in 1..Len(tasks) :
       tasks[i].st = "completed" =>
         \A k \in 1..3 : \E w \in writes : w.doc = OwnDocs(tasks[i])[k]

\* C10: when parsing (read or schema validation) or materialization fails,
\* the run issues no generation request and no document write and returns a
\* report with completedTopics = 0, no topic result, endTime set and the
\* fatal error appended to errors; after a parsing failure no find or create
\* call has been issued on the store either.
C10_HardGates ==
  fatal \in {"read", "validate", "structure"} =>
    /\ pc = "Returned"
    /\ calls.generate = 0
    /\ writes = {}
    /\ tasks = <<>>
    /\ report.completedTopics = 0
    /\ report.topicResults = <<>>
    /\ report.endTime # Undefined
    /\ Len(report.errors) >= 1
    /\ StartsWith(report.errors[Len(report.errors)], "Pipeline failed: Error: ")
    /\ fatal \in {"read", "validate"} =>
         calls.find = 0 /\ calls.create = 0 /\ store = <<>>

\* a run whose materialization failed after it had created resources
C10_Witness ==
  /\ fatal = "structure"
  /\ calls.create >= 2
  /\ pc = "Returned"

(***************************************************************************)
(* Claims about runPipeline called with caller-supplied arguments          *)
(* (specification SpecApi).                                                *)
(***************************************************************************)
SettledTasks == {i \in 1..Len(tasks) : tasks[i].st \in {"completed", "failed"}}

\* C11: runPipeline never rejects: whatever throws inside it (reading or
\* parsing the index, materialization, the construction of the limiter, the
\* progress callback), the run ends by returning its report, finalized.
C11_NeverRejects ==
  /\ pc # "Rejected"
  /\ fatal # Undefined => pc = "Returned" /\ report.endTime # Undefined

\* a run ended by a throwing progress callback
C11_Witness ==
  /\ fatal = "progress"
  /\ pc = "Returned"
  /\ report.endTime # Undefined

\* C12: no generation request and no document write is issued before
\* createCourseStructure has resolved the whole plan, and the topic tasks
\* issue no find and no create call: once a task exists, the find calls are
\* exactly those of the plan and the create calls exactly the stored files.
C12_MaterializationPrecedesGeneration ==
  (calls.generate > 0 \/ writes # {} \/ tasks # <<>>) =>
    /\ pc \in {"Generating", "Returned"}
    /\ Len(resolved) = Len(PlanOf(courseSpec))
    /\ calls.find = Len(PlanOf(courseSpec))
    /\ calls.create = Len(store)

\* every task of a run of two or more topics has generated and written
C12_Witness ==
  /\ Len(tasks) >= 2
  /\ calls.generate = Len(tasks)
  /\ \A i \in 1..Len(tasks) : tasks[i].written = 3

\* C13: runPipeline returns its report only after every dispatched topic
\* task has settled.
C13_ReturnsAfterAllSettled ==
  pc = "Returned" => SettledTasks = 1..Len(tasks)

\* C14: each settled task has appended exactly one TopicResult and
\* incremented exactly one counter: completedTopics + failedTopics is the
\* number of results, which is the number of settled tasks and at most
\* totalTopics, and each counter is the number of results of its status.
C14_OneResultPerTask ==
  /\ report.completedTopics + report.failedTopics = Len(report.topicResults)
  /\ Len(report.topicResults) = Cardinality(SettledTasks)
  /\ Len(report.topicResults) <= report.totalTopics
  /\ report.completedTopics =
       Cardinality({r \in 1..Len(report.topicResults) :
                      report.topicResults[r].status = "completed"})

\* two tasks in flight at once have both settled, one of each status
C14_Witness ==
  /\ concurrency >= 2
  /\ report.completedTopics >= 1
  /\ report.failedTopics >= 1
  /\ Len(report.topicResults) >= 2

(***************************************************************************)
(* Claims about one generateAndWriteTopic call (specification SpecTopic).  *)
(***************************************************************************)
\* C15: a non-transient failure of a generation attempt is not retried:
\* every failed attempt that was followed by another attempt of the same
\* generateContent call failed with a retryable (transient) error.
C15_OnlyTransientRetried ==
  \A k \in 1..(Len(gen.errors) - 1) : isRetryableError(gen.errors[k])

\* C16: one generateContent call makes at most retries + 1 attempts; when
\* the last of them fails, its error propagates and the topic is failed with
\* that error, with no further request.
C16_BoundedRetry ==
  /\ Len(gen.errors) <= retries + 1
  /\ \A step \in GenSteps : gen.requests[step] <= retries + 1
  /\ Len(gen.errors) = retries + 1 =>
       /\ gen.step = "returned"
       /\ gen.status = "failed"
       /\ gen.error = gen.errors[retries + 1]

\* the development request has failed retries + 1 times
C16_Witness ==
  /\ gen.requests["development"] = retries + 1
  /\ Len(gen.errors) = retries + 1
  /\ gen.status = "failed"

\* C18: once the topic index response fails to decode, the call has ended
\* with a failed result that carries the decode error; no request for the
\* development or the voiceover has been made, no document has been
\* written, and nothing is requested or written afterwards.
C18_DecodeFailureIsFinal ==
  [][gen'.error = DecodeError =>
       /\ gen'.status = "failed"
       /\ gen'.step = "returned"
       /\ \A step \in GenSteps \ {"index"} : gen'.requests[step] = 0
       /\ gen'.written = 0
       /\ gen.error = DecodeError => gen' = gen]_vars

\* a fenced completion that is not JSON, received after a failed attempt
C18_Witness ==
  /\ gen.error = DecodeError
  /\ gen.requests["index"] >= 2
  /\ gen.status = "failed"

(***************************************************************************)
(* Claims about the calls of the document store and about the spec the run *)
(* works on.                                                               *)
(***************************************************************************)
\* C17: a transient error of a Drive call of the materialization is retried
\* before it is fatal to the run: when the run has ended on such an error,
\* the failing lookup was issued more than once (the find calls exceed the
\* resolved resources by two or more).
C17_TransientStoreErrorRetried ==
  (fatal = "structure" /\ isRetryableError(report.errors[Len(report.errors)])) =>
    calls.find >= Len(resolved) + 2

\* C19: no folder or document is created or written unless the CourseSpec
\* of the run passes schema validation, whether it was parsed from the index
\* document or given by the caller.
C19_ValidationGate ==
  (calls.create > 0 \/ writes # {}) => validateCourseSpecSchema(courseSpec).valid

\* C20: the topic numbers of each module returned by parseIndexContent are
\* pairwise different.
C20_TopicNumbersUnique ==
  \A c \in 1..Len(parsed) :
    \A m \in 1..Len(parsed[c].spec.modules) :
      \A i, j \in 1..Len(parsed[c].spec.modules[m].topics) :
        parsed[c].spec.modules[m].topics[i].topicNumber
          = parsed[c].spec.modules[m].topics[j].topicNumber => i = j

(***************************************************************************)
(* Further claims about createCourseStructure (specification SpecMat).     *)
(***************************************************************************)
\* the folder names of the spec are pairwise distinct under each parent
DistinctFolderNames(spec) ==
  /\ \A m1, m2 \in 1..Len(spec.modules) :
       moduleFolderName(spec.modules[m1]) = moduleFolderName(spec.modules[m2])
         => m1 = m2
  /\ \A m \in 1..Len(spec.modules) :
       \A t1, t2 \in 1..Len(spec.modules[m].topics) :
         topicFolderName(spec.modules[m].topics[t1])
           = topicFolderName(spec.modules[m].topics[t2]) => t1 = t2

FilesOfKind(kind) == {i \in 1..Len(store) : store[i].kind = kind}

TagBefore(a, b) ==
  \/ a[1] < b[1]
  \/ a[1] = b[1] /\ a[2] < b[2]
  \/ a[1] = b[1] /\ a[2] = b[2] /\ a[3] < b[3]

\* C26: createCourseStructure issues its lookups one at a time (the k-th
\* only once k - 1 resources are resolved) and resolves the course folder,
\* then per module in spec order its folder, then per topic in spec order
\* its folder and its three documents; every resolved resource lies in the
\* folder resolved earlier for its parent.
C26_MaterializationOrder ==
  \E plan \in {PlanOf(courseSpec)} :
    /\ calls.find = Len(matCalls) * Len(plan) + Len(resolved)
    /\ \A k, l \in 1..Len(plan) : k < l => TagBefore(plan[k], plan[l])
    /\ \A k \in 1..Len(resolved) :
         /\ store[resolved[k]].name = NameOf(courseSpec, plan[k])
         /\ store[resolved[k]].kind = (IF plan[k][3] > 0 THEN "doc" ELSE "folder")
         /\ IF k = 1 THEN store[resolved[k]].parent = rootFolderId
            ELSE \E j \in 1..(k - 1) :
                   /\ plan[j] = << (IF plan[k][3] > 0 \/ plan[k][2] > 0
                                    THEN plan[k][1] ELSE 0),
                                   (IF plan[k][3] > 0 THEN plan[k][2] ELSE 0), 0 >>
                   /\ store[resolved[k]].parent = resolved[j]

\* a call has resolved a topic folder and its first document
C26_Witness ==
  /\ Len(resolved) >= 4
  /\ store[resolved[4]].kind = "doc"
  /\ store[resolved[3]].kind = "folder"
  /\ store[resolved[4]].parent = resolved[3]

C29_ResultsInCompletionOrder ==
  [][\A i \in 1..Len(tasks) :
       (tasks[i].st \notin {"completed", "failed"}
        /\ tasks'[i].st \in {"completed", "failed"}) =>
         /\ Len(report'.topicResults) = Len(report.topicResults) + 1
         /\ SubSeq(report'.topicResults, 1, Len(report.topicResults))
              = report.topicResults
         /\ SameTopic(report'.topicResults[Len(report'.topicResults)], tasks[i])
         /\ report'.topicResults[Len(report'.topicResults)].status = tasks'[i].st]_vars

\* the second and the third task of the spec have settled while the first
\* is still running: their results are the first two of the report
C29_Witness ==
  /\ Len(tasks) >= 3
  /\ tasks[1].st \in {"generating", "writing"}
  /\ tasks[2].st \in {"completed", "failed"}
  /\ tasks[3].st \in {"completed", "failed"}
  /\ Len(report.topicResults) = 2
  /\ SameTopic(report.topicResults[1], tasks[2])
  /\ ~ SameTopic(report.topicResults[1], tasks[1])
  /\ SameTopic(report.topicResults[2], tasks[3])

(***************************************************************************)
(* Claims about concurrent and resumed materialization, the document       *)
(* write and the exit code.                                                *)
(***************************************************************************)
\* C21: the store never holds two resources with the same parent, name and
\* type.
C21_NoDuplicateResources ==
  \A i, j \in 1..Len(store) : store[i] = store[j] => i = j

\* the identifier a FolderStructure holds for a tag of the plan
IdIn(structure, tag) ==
  IF tag[1] = 0 THEN structure.courseFolderId
  ELSE IF tag[2] = 0 THEN structure.modules[tag[1]].folderId
  ELSE IF tag[3] = 0 THEN structure.modules[tag[1]].topics[tag[2]].folderId
  ELSE DocIds(structure.modules[tag[1]].topics[tag[2]].docs)[tag[3]]

\* C25: when a call has failed partway and a later call with the same spec
\* and root has returned, the later call resolved every resource of the
\* failed call to the same identifier, every file created by the calls is a
\* resource of the returned structure, and the store holds one file per
\* (parent, name, type).
C25_ResumeAfterFailure ==
  (Len(matRuns) = 1 /\ Len(matCalls) >= 1) =>
    \E plan \in {PlanOf(courseSpec)} :
      /\ \A k \in 1..Len(matRuns[1].resolved) :
           IdIn(matCalls[1].structure, plan[k]) = matRuns[1].resolved[k]
      /\ \A i \in (Len(store) - calls.create + 1)..Len(store) :
           \E k \in 1..Len(plan) : IdIn(matCalls[1].structure, plan[k]) = i
      /\ \A i, j \in 1..Len(store) : store[i] = store[j] => i = j

\* the first call failed after creating three resources or more, and the
\* next call has returned
C25_Witness ==
  /\ Len(matRuns) = 1
  /\ Len(matRuns[1].resolved) >= 3
  /\ Len(matCalls) >= 1
  /\ Len(store) = calls.create
  /\ Len(store) > Len(matRuns[1].resolved)

\* C22: when writeDocContent has completed, the body of the document is the
\* text written, followed by the final newline of the document, whatever
\* the body was before.
C22_OverwriteSemantics ==
  docFile.pc = "written" => docFile.body = docFile.text \o "\n"

\* a document that held other text has been written a second time
C22_Witness ==
  /\ docFile.pc = "written"
  /\ docFile.text = "Nuevo"
  /\ docFile.body = "Nuevo\n"

\* C23: the generate command exits with 0 only when the report has no failed
\* topic and the command did not throw, with 1 when the report has a failed
\* topic or the command threw, and with no other code.
C23_ExitCode ==
  exitCode # <<>> =>
    /\ exitCode[1] \in {0, 1}
    /\ exitCode[1] = 0 <=> (report.failedTopics = 0 /\ fatal # "save")

\* the command has exited with 1 after a run with a failed topic
C23_Witness ==
  /\ exitCode = <<1>>
  /\ report.failedTopics >= 1
  /\ report.completedTopics >= 1
  /\ fatal = Undefined

(***************************************************************************)
(* Further claims about one generateAndWriteTopic call (SpecTopic).        *)
(***************************************************************************)
\* the requests of a call in the order of the claim
RequestOrder(multiPass) ==
  IF multiPass
  THEN <<"index", "development", "developmentReview", "voiceover", "voiceoverReview">>
  ELSE <<"index", "development", "voiceover">>

\* C28: the requests issued so far are the first ones of the order index,
\* development, development review, voiceover, voiceover review (reviews
\* only when enabled), each issued once; the voiceover request is built
\* from the final development text (the reviewed one when review is
\* enabled) and each review from its draft; when the generation is over,
\* every request of the order has been made (5 with review, 3 without) and
\* the texts kept are the reviewed ones.
C28_GenerationSequence ==
  \E order \in {RequestOrder(enableMultiPass)} :
    /\ Len(gen.issued) <= Len(order)
    /\ gen.issued = SubSeq(order, 1, Len(gen.issued))
    /\ gen.inputs["voiceover"] # Undefined =>
         gen.inputs["voiceover"] =
           Completion(IF enableMultiPass THEN "developmentReview" ELSE "development")
    /\ gen.inputs["developmentReview"] # Undefined =>
         gen.inputs["developmentReview"] = Completion("development")
    /\ gen.inputs["voiceoverReview"] # Undefined =>
         gen.inputs["voiceoverReview"] = Completion("voiceover")
    /\ (gen.step = "write" \/ gen.status = "completed") =>
         /\ gen.issued = order
         /\ Len(gen.issued) = (IF enableMultiPass THEN 5 ELSE 3)
         /\ gen.topicDevelopment =
              Completion(IF enableMultiPass THEN "developmentReview" ELSE "development")
         /\ gen.voiceoverScript =
              Completion(IF enableMultiPass THEN "voiceoverReview" ELSE "voiceover")

\* a call with review enabled has generated everything, one request having
\* been retried
C28_Witness ==
  /\ enableMultiPass
  /\ gen.status = "completed"
  /\ Len(gen.issued) = 5
  /\ gen.requests["developmentReview"] >= 2

(***************************************************************************)
(* Termination of a run (SpecApiFair).                                     *)
(***************************************************************************)
\* every run eventually returns its report
C30_RunReturns == <>[](pc = "Returned")

\* during Generating, when fewer than N tasks are in flight and a task is
\* queued, the oldest queued task starts
C30_WaitingTaskStarts ==
  \A i \in 1..3 :
    (pc = "Generating" /\ Queued # {} /\ i = Min(Queued \cup {3})
       /\ Cardinality(InFlight) < concurrency)
      ~> (i \notin Queued)

\* every dispatched task eventually starts and settles
C30_EveryTaskSettles == <>[](SettledTasks = 1..Len(tasks))

\* no task is queued when the run has returned
C30_NoneQueuedAtReturn == [](pc = "Returned" => Queued = {})

\* C30: every run eventually returns its report; during Generating a
\* waiting task starts whenever fewer than N tasks are in flight; every
\* dispatched task eventually starts and settles, and none is left queued
\* when the run returns.
C30_RunTermination ==
  /\ C30_RunReturns
  /\ C30_WaitingTaskStarts
  /\ C30_EveryTaskSettles
  /\ C30_NoneQueuedAtReturn

(***************************************************************************)
(* Claims about the line loop of parseModules (SpecLines).                 *)
(***************************************************************************)
\* the primary pass emits a module exactly when some line is a
\* letter-prefixed topic line whose name is not empty after stripping
HasNamedTopicLine(lines) ==
  \E k \in 1..Len(lines) :
    /\ TopicMatch(lines[k])[1]
    /\ Len(Trim(RemoveChars(TopicMatch(lines[k])[5], TopicNameStrip))) > 0

\* the topics of the result of the fallback pass
FallbackTopics == IF Len(scan.modules) = 0 THEN <<>> ELSE scan.modules[1].topics

\* the fallback pass ran exactly when the primary pass emitted no module,
\* and returned no module or a single module numbered 1
FallbackShape ==
  /\ scan.fallback <=> ~ HasNamedTopicLine(scan.lines)
  /\ scan.fallback =>
       \/ scan.modules = <<>>
       \/ Len(scan.modules) = 1 /\ scan.modules[1].moduleNumber = 1

\* a line starts with a numeric marker or is longer than 10 characters
LooksLikeTopic(line) == HasNumber(line) \/ Len(line) > 10

\* a line the fallback pass skips as metadata
IsMetadataLine(line) ==
  \/ Includes(line, "Objetivo")
  \/ Includes(line, emojiTarget)
  \/ IsRuleLine(line)
  \/ Len(line) < 5

\* the run of digits, optional dot and digits a line starts with
LeadingNumber(line) ==
  Bind(RunLen(line, 1, Digits),
       LAMBDA a :
         Bind(IF MatchAt(line, a + 1, ".") THEN 1 ELSE 0,
              LAMBDA dot :
                SubSeq(line, 1, a + dot + RunLen(line, a + dot + 1, Digits))))

\* C31 as stated: the fallback pass runs exactly when the primary pass
\* emitted no module, returns no module or one module numbered 1, and every
\* line that starts with a numeric marker or is longer than 10 characters
\* is one of its topics, numbered by its leading number if it has one and
\* by the counter otherwise.
C31_EveryLineIsTopic ==
  scan.done =>
    /\ FallbackShape
    /\ scan.fallback =>
         \E el \in {SelectSeq(scan.lines, LooksLikeTopic)} :
           /\ Len(FallbackTopics) = Len(el)
           /\ \A k \in 1..Len(FallbackTopics) :
                FallbackTopics[k].topicNumber =
                  (IF LeadingNumber(el[k]) # "" THEN LeadingNumber(el[k])
                   ELSE StringOf(k))

\* a line the fallback pass turns into a topic
IsFallbackTopicLine(line) == ~ IsMetadataLine(line) /\ LooksLikeTopic(line)

\* C31 amended: the fallback pass runs exactly when the primary pass
\* emitted no module and returns no module or one module numbered 1; its
\* topics are, in order, the lines that are not metadata (no 'Objetivo', no
\* target glyph, not a rule, at least 5 characters) and start with a numeric
\* marker or are longer than 10 characters; a topic is numbered by the
\* longest number (digits, optional dot, digits) at its start that '.', ')'
\* or white space and then more text follow, and by the counter, which
\* counts every topic from 1, when there is none.
C31_FallbackPass ==
  scan.done =>
    /\ FallbackShape
    /\ scan.fallback =>
         \E el \in {SelectSeq(scan.lines, IsFallbackTopicLine)} :
           /\ Len(FallbackTopics) = Len(el)
           /\ \A k \in 1..Len(FallbackTopics) :
                FallbackTopics[k].topicNumber =
                  (IF AltMatch(el[k])[1] THEN AltMatch(el[k])[2]
                   ELSE StringOf(k))

\* the fallback pass has skipped a line and made a topic with an embedded
\* number and then one numbered by the counter
C31_Witness ==
  /\ scan.done
  /\ scan.fallback
  /\ Len(scan.lines) = 3
  /\ Len(FallbackTopics) = 2
  /\ FallbackTopics[1].topicNumber = "2"
  /\ FallbackTopics[2].topicNumber = "2"
  /\ FallbackTopics[2].topicName = "Plan de ahorro mensual"

\* the handler of the loop body that takes a line, in the order of its tests
LineShape(line) ==
  IF IsNivelLine(line) THEN "title"
  ELSE IF ModuloMatch(line)[1] THEN "modulo"
  ELSE IF ModuleHeaderMatch(line)[1] /\ ~ HasDecimalPrefix(line) THEN "header"
  ELSE IF TopicMatch(line)[1] THEN "topic"
  ELSE IF Includes(line, ResultMarker) THEN "result"
  ELSE "other"

\* the line the loop has just classified
ScannedLine == scan.lines[scan.i]

\* the open module before and after the line, NoModule when none is open
OpenBefore == IF scan.prev.open THEN scan.prev.cur ELSE NoModule
OpenAfter == IF scan.st.open THEN scan.st.cur ELSE NoModule

\* the line opened no module and closed none
NoModuleOpenedOrClosed ==
  /\ scan.st.open = scan.prev.open
  /\ scan.st.counter = scan.prev.counter
  /\ scan.st.modules = scan.prev.modules
  /\ OpenAfter.moduleNumber = OpenBefore.moduleNumber
  /\ OpenAfter.moduleName = OpenBefore.moduleName

\* a module-result line sets moduleResult on the open module and does
\* nothing else; without an open module it does nothing
ResultLineHandled ==
  LineShape(ScannedLine) = "result" =>
    /\ NoModuleOpenedOrClosed
    /\ OpenAfter.topics = OpenBefore.topics
    /\ scan.prev.open =>
         OpenAfter.moduleResult = Trim(ReplaceFirst(ScannedLine, ResultMarker))
    /\ ~ scan.prev.open => scan.st = scan.prev

\* a topic line seen while no module is open opens the synthetic module
SyntheticModuleOpened ==
  (LineShape(ScannedLine) = "topic" /\ ~ scan.prev.open) =>
    /\ scan.st.open
    /\ scan.st.counter = scan.prev.counter + 1
    /\ scan.st.modules = scan.prev.modules
    /\ scan.st.cur.moduleNumber = scan.st.counter
    /\ scan.st.cur.moduleName = "Contenido del curso"

\* the effects of the handlers other than the one that takes the line are
\* absent: a header leaves a new module without topic or result, a topic
\* line leaves moduleResult as it was, any other line changes nothing
OneHandlerPerLine ==
  /\ LineShape(ScannedLine) \in {"modulo", "header"} =>
       /\ scan.st.counter = scan.prev.counter + 1
       /\ scan.st.cur.topics = <<>>
       /\ scan.st.cur.moduleResult = Undefined
  /\ LineShape(ScannedLine) = "topic" =>
       /\ OpenAfter.moduleResult = OpenBefore.moduleResult
       /\ Len(OpenAfter.topics) <= Len(OpenBefore.topics) + 1
       /\ scan.st.modules = scan.prev.modules
  /\ LineShape(ScannedLine) \in {"title", "other"} => scan.st = scan.prev

\* C32 as stated: a module-result line only sets moduleResult on the open
\* module; a letter-prefixed topic line seen while no module is open opens
\* a synthetic module and is appended to it; each line triggers at most one
\* handler.
C32_TopicAlwaysAppended ==
  (scan.i >= 1 /\ ~ scan.done) =>
    /\ ResultLineHandled
    /\ SyntheticModuleOpened
    /\ (LineShape(ScannedLine) = "topic" /\ ~ scan.prev.open) =>
         Len(scan.st.cur.topics) = 1
    /\ OneHandlerPerLine

\* C32 amended: as stated, but the topic line is appended to the synthetic
\* module only when its name is not empty after the glyphs are stripped;
\* otherwise the synthetic module is opened and left without the topic.
C32_LineClassification ==
  (scan.i >= 1 /\ ~ scan.done) =>
    /\ ResultLineHandled
    /\ SyntheticModuleOpened
    /\ (LineShape(ScannedLine) = "topic" /\ ~ scan.prev.open) =>
         \E name \in {Trim(RemoveChars(TopicMatch(ScannedLine)[5], TopicNameStrip))} :
           scan.st.cur.topics =
             (IF name = "" THEN <<>>
              ELSE <<NewTopic(TopicMatch(ScannedLine)[3] \o "." \o
                              TopicMatch(ScannedLine)[4], name)>>)
    /\ OneHandlerPerLine

\* a topic line carrying the result marker was appended to the synthetic
\* module it opened, and a result line has then set moduleResult
C32_Witness ==
  /\ scan.i = 2
  /\ ~ scan.done
  /\ LineShape(scan.lines[1]) = "topic"
  /\ Includes(scan.lines[1], ResultMarker)
  /\ LineShape(ScannedLine) = "result"
  /\ scan.st.cur.moduleResult = "Sabes"
  /\ Len(scan.st.cur.topics) = 1

(***************************************************************************)
(* Claims about extractObjective and extractLevel (SpecHeader).            *)
(***************************************************************************)
\* the first line holding an objective marker, 0 when there is none
ObjectiveLine(lines) ==
  Min({k \in 1..Len(lines) :
         \/ Includes(lines[k], "Objetivo")
         \/ Includes(lines[k], "objetivo")
         \/ Includes(lines[k], emojiTarget)} \cup {Len(lines) + 1}) % (Len(lines) + 1)

\* the objective the claim describes: the text after the marker on the
\* marker line, if any, then the lines after it up to a module-marker line
ObjectiveAsClaimed(lines) ==
  Bind(ObjectiveLine(lines),
       LAMBDA i :
         IF i = 0 THEN "Completar el curso satisfactoriamente"
         ELSE Bind(StripObjectiveMarker(lines[i]),
                   LAMBDA rest :
                     CollapseSpaces(Trim(Join(
                       (IF rest = "" THEN <<>> ELSE <<rest>>)
                         \o CollectObjective(lines, i + 1), " ")))))

\* C33: the objective is the text that follows the marker on the marker
\* line, if there is any, followed by the lines after it up to a
\* module-marker line; when the line is only the marker it is those lines;
\* without a marker line it is the placeholder sentence.
C33_ObjectiveKeepsMarkerLineText ==
  \A k \in 1..Len(parsed) :
    parsed[k].spec.objective = ObjectiveAsClaimed(SplitLines(content))

\* C34: the level of a parsed spec is avanzado if the text contains
\* 'avanzado' or 'advanced' in any case, else intermedio if it contains
\* 'intermedio' or 'intermediate', else the lowest level; it is always one
\* of the three.
C34_LevelExtraction ==
  parsed # <<>> =>
    \E text \in {ToLowerCase(content)} :
    \E level \in {IF Includes(text, "avanzado") \/ Includes(text, "advanced")
                  THEN "avanzado"
                  ELSE IF Includes(text, "intermedio") \/ Includes(text, "intermediate")
                  THEN "intermedio"
                  ELSE "b" \o U.u00E1 \o "sico"} :
      \A k \in 1..Len(parsed) :
        /\ parsed[k].spec.level \in LevelWords
        /\ parsed[k].spec.level = level

\* a document naming two levels, the higher in capitals, parsed as avanzado
C34_Witness ==
  /\ Len(parsed) >= 1
  /\ parsed[1].spec.level = "avanzado"
  /\ Includes(content, "ADVANCED")
  /\ Includes(content, "Intermedio")

(***************************************************************************)
(* Claims about the progress callback (SpecApi).                           *)
(***************************************************************************)
\* the number of completed results among the first k of the report
CompletedAmong(k) ==
  Cardinality({r \in 1..k : report.topicResults[r].status = "completed"})

\* C35: the progress callback is called once per finished topic task, after
\* the result of the task was appended and the counters updated: the k-th
\* call names the topic of the k-th result and reports the completed count
\* that includes it; completed and percentage never decrease from one call
\* to the next, percentage lies between 0 and 100, and total is
\* totalTopics.
C35_ProgressCallback ==
  IF onProgress = "none" THEN events = <<>>
  ELSE
    /\ Len(events) = Len(report.topicResults)
    /\ Len(events) = Cardinality(SettledTasks)
    /\ \A k \in 1..Len(events) :
         /\ events[k].completed = CompletedAmong(k)
         /\ events[k].currentTopic =
              report.topicResults[k].topicNumber \o ". "
                \o report.topicResults[k].topicName
         /\ events[k].total = report.totalTopics
         /\ events[k].percentage \in 0..100
    /\ \A k \in 1..(Len(events) - 1) :
         /\ events[k].completed <= events[k + 1].completed
         /\ events[k].percentage <= events[k + 1].percentage

\* the callback was called for a failed topic and then for a completed one
C35_Witness ==
  /\ onProgress = "returns"
  /\ Len(events) = 2
  /\ events[1].completed = 0
  /\ events[2].completed = 1
  /\ events[2].percentage > events[1].percentage
  /\ events[2].percentage < 100

\* generateTopicContent has returned the three artifacts
GenerationFinished ==
  /\ gen.issued = RequestOrder(enableMultiPass)
  /\ gen.topicIndex # Undefined
  /\ gen.topicDevelopment # Undefined
  /\ gen.voiceoverScript # Undefined
  /\ gen.errors = <<>>

\* the documents written so far are the first ones of the order index,
\* development, voiceover, and writing starts after the generation
WritesInOrder ==
  /\ Len(gen.docs) <= Len(TopicDocs)
  /\ gen.docs = SubSeq(TopicDocs, 1, Len(gen.docs))
  /\ Len(gen.docs) = gen.written
  /\ (gen.docs # <<>> \/ gen.step = "write") => GenerationFinished

\* C36: the result is 'completed' only if the generation of the three
\* artifacts finished and then the three documents were written, in the
\* order index, development, voiceover; a write that fails after earlier
\* writes marks the topic 'failed', and the documents written before it
\* stay written.
C36_CompletedOnlyAfterWrites ==
  /\ [](/\ WritesInOrder
        /\ gen.status = "completed" => (GenerationFinished /\ gen.docs = TopicDocs)
        /\ gen.error = WriteError => gen.status = "failed")
  /\ [][/\ Len(gen'.docs) >= Len(gen.docs)
        /\ \A k \in 1..Len(gen.docs) : gen'.docs[k] = gen.docs[k]]_vars

\* the third write failed after two documents were written
C36_Witness ==
  /\ gen.status = "failed"
  /\ gen.error = WriteError
  /\ gen.docs = <<"topicIndexId", "topicDevelopmentId">>

(***************************************************************************)
(* Claims about the callers of runPipeline (SpecCallers, SpecJob).         *)
(***************************************************************************)
\* the run was aborted at the Parsing or the Structuring gate
AbortedAtGate == fatal \in {"read", "validate", "structure"}

\* C37: a run aborted at the Parsing or Structuring gate returns a report
\* with failedTopics = 0 and a non-empty errors list; the generate command,
\* having saved it, exits with code 0, and the server marks the job
\* 'completed' with progress 100 (the job fails only if the report cannot be
\* saved).
C37_AbortedRunLooksSuccessful ==
  AbortedAtGate =>
    /\ report.failedTopics = 0
    /\ report.completedTopics = 0
    /\ report.errors # <<>>
    /\ exitCode # <<>> => exitCode = <<0>>
    /\ job # <<>> =>
         /\ job[1].status = "failed" => job[1].error = <<SaveError>>
         /\ job[1].status = "completed" =>
              /\ job[1].progress = 100
              /\ job[1].completedTopics = 0
              /\ job[1].report = <<report>>

\* the command has exited with 0 after a run aborted while structuring
C37_Witness ==
  /\ fatal = "structure"
  /\ exitCode = <<0>>
  /\ report.errors # <<>>

\* the job of a run aborted at the validation gate is completed at 100
C37_JobWitness ==
  /\ fatal = "validate"
  /\ job # <<>>
  /\ job[1].status = "completed"
  /\ job[1].progress = 100

\* C38: a job starts 'running' and leaves it at most once, for 'completed'
\* or 'failed', and its entry never changes afterwards (no way back, no
\* progress update); it is 'completed' only after runPipeline has returned
\* its report, which the entry then holds.
C38_JobLifecycle ==
  /\ [](/\ job # <<>>
        /\ job[1].status \in {"running", "completed", "failed"}
        /\ pc \in {"Parsing", "Structuring", "Generating"} => job[1].status = "running"
        /\ job[1].status = "completed" =>
             (pc = "Returned" /\ job[1].report = <<report>>))
  /\ [][job[1].status # "running" => job' = job]_vars

\* the job was updated by two progress calls and then completed
C38_Witness ==
  /\ job # <<>>
  /\ job[1].status = "completed"
  /\ Len(events) >= 2
  /\ job[1].completedTopics >= 1
  /\ job[1].report = <<report>>


(***************************************************************************)
(* C39  Validator result consistency.                                      *)
(***************************************************************************)
When(violated, path) == IF violated THEN {path} ELSE {}

\* the paths of the fields of a candidate that break a rule of the schema
Violations(data) ==
  When(data.courseName = "", "/courseName")
  \cup When(data.level \notin LevelEnum, "/level")
  \cup UNION
         { LET module == data.modules[m]
               path == "/modules/" \o StringOf(m - 1)
           IN When(module.moduleNumber < 1, path \o "/moduleNumber")
              \cup When(module.moduleName = "", path \o "/moduleName")
              \cup When(Len(module.topics) = 0, path \o "/topics")
              \cup UNION
                     { LET topic == module.topics[t]
                           at == path \o "/topics/" \o StringOf(t - 1)
                       IN When(topic.topicNumber = "", at \o "/topicNumber")
                          \cup When(topic.topicName = "", at \o "/topicName")
                       : t \in 1..Len(module.topics) }
           : m \in 1..Len(data.modules) }

\* the result of a validateCourseSpecSchema call agrees with its candidate
ResultConsistent(data, result) ==
  /\ result.valid <=> Violations(data) = {}
  /\ result.valid <=> result.errors = <<>>
  /\ result.valid => result.courseSpec = data
  /\ Len(result.errors) = Cardinality(Violations(data))
  /\ \A path \in Violations(data) :
       \E i \in 1..Len(result.errors) : StartsWith(result.errors[i], path \o ": ")

\* C39: validateCourseSpecSchema returns valid = true exactly with an empty
\* errors list and the candidate itself as courseSpec, and valid = false
\* with one '<path>: <message>' string per violated rule of the schema; and
\* parseIndexDocument throws exactly when the spec it built is invalid, with
\* an error whose message carries the string of every violation.
C39_ValidatorConsistency ==
  /\ validation # <<>>
       => ResultConsistent(validation[1].data, validation[1].result)
  /\ \A k \in 1..Len(parsed) :
       /\ parsed[k].doc.ok <=> Violations(parsed[k].spec) = {}
       /\ parsed[k].doc.ok =>
            parsed[k].doc.courseSpec =
              [parsed[k].spec EXCEPT
                 !.metadata = parsed[k].doc.courseSpec.metadata]
       /\ ~ parsed[k].doc.ok =>
            /\ StartsWith(parsed[k].doc.error, "Error: Invalid CourseSpec: ")
            /\ \A path \in Violations(parsed[k].spec) :
                 Includes(parsed[k].doc.error, path \o ": must ")

\* C39 witness: a candidate breaking at least three rules was validated and
\* a parseIndexDocument call has thrown
C39_Witness ==
  /\ validation # <<>>
  /\ ~ validation[1].result.valid
  /\ Len(validation[1].result.errors) >= 3
  /\ \E k \in 1..Len(parsed) : ~ parsed[k].doc.ok


(***************************************************************************)
(* C40  Document-store access requires a saved token.                      *)
(***************************************************************************)
IsStoreOperation(entry) == entry.call \in {"drive", "docs"}
SavesToken(entry) == entry.call = "exchangeCodeForTokens" /\ entry.ok
DeletesToken(entry) == entry.call = "deleteToken"

\* whether a token is saved when call i of the log is made, told from the
\* calls before it
TokenSavedAt(i) ==
  LET changes == {j \in 1..(i - 1) :
                    SavesToken(auth.log[j]) \/ DeletesToken(auth.log[j])}
  IN IF changes = {} THEN auth.atStart # <<>>
     ELSE SavesToken(auth.log[Max(changes)])

OperationsGated ==
  \A i \in 1..Len(auth.log) :
    IsStoreOperation(auth.log[i]) =>
      /\ auth.log[i].ok <=> TokenSavedAt(i)
      /\ ~ auth.log[i].ok => auth.log[i].error = AuthRequired

DeleteDiscardsClient ==
  (Len(auth'.log) = Len(auth.log) + 1 /\ DeletesToken(auth'.log[Len(auth'.log)]))
    => auth'.cached = 0 /\ auth'.file = <<>>

\* C40: a Drive or Docs operation proceeds exactly when a token is saved at
\* the time it is called: after a deleteToken call every operation fails
\* with 'Google authentication required' until an exchangeCodeForTokens
\* call has succeeded; and deleteToken leaves no cached client and no token
\* file.
C40_TokenGatesStore == [](OperationsGated) /\ [][DeleteDiscardsClient]_vars

\* C40 witness: an operation went through, the token was deleted, an
\* operation failed, an exchange succeeded and an operation went through
C40_Witness ==
  \E i, j, k, l \in 1..Len(auth.log) :
    /\ i < j /\ j < k /\ k < l
    /\ DeletesToken(auth.log[i])
    /\ IsStoreOperation(auth.log[j]) /\ ~ auth.log[j].ok
    /\ SavesToken(auth.log[k])
    /\ IsStoreOperation(auth.log[l]) /\ auth.log[l].ok
    /\ \E h \in 1..(i - 1) : IsStoreOperation(auth.log[h]) /\ auth.log[h].ok

====
